---------------------------- MODULE Spec2Model ----------------------------
(***************************************************************************)
(* Presence state machine, aggregation scheduler, event publisher and      *)
(* durable writer of the workstation-occupancy monitor.                    *)
(*                                                                         *)
(* The model follows src/testing/sfvis_develop.py (the generation with the *)
(* bounded queue and the single writer thread).  Text values are modelled  *)
(* as sequences of one-character strings, optional values (Python None)    *)
(* as sequences of length at most one, time as an integer number of clock  *)
(* ticks.                                                                  *)
(***************************************************************************)
EXTENDS Integers, Sequences, FiniteSets, TLC

VARIABLES
    cameras,     \* the camera registry: index -> Camera
    now,         \* the clock (time.time / perf_counter / datetime.now), in ticks
    elapsed,     \* main's local "elapsed" (whole seconds since overall_start)
    pc,          \* position of the acquisition (main) thread
    stop_event,  \* the stop flag set by the signal handler
    q,           \* DBWriter.q, the bounded queue of requests
    maxsize,     \* DBWriter.q.maxsize
    conn,        \* DBWriter._conn: "None", "open" or "lost" (open, server side gone)
    cursor,      \* DBWriter._cursor: "None" or "cursor"
    pending,     \* statements executed on the connection and not yet committed
    wpc,         \* position of the writer thread: "get", "handle", "stopped"
    item,        \* the request the writer thread holds
    tables,      \* the store: table name -> rows (a sequence), for created tables
    faults,      \* number of store faults injected so far (bounds the environment)
    nEnq,        \* number of requests offered to enqueue so far (history)
    last,        \* history: the latest step of the main thread
    wlast        \* history: the latest step of the writer thread

vars == <<cameras, now, elapsed, pc, stop_event, q, maxsize, conn, cursor,
          pending, wpc, item, tables, faults, nEnq, last, wlast>>

(***************************************************************************)
(* Bounds of the model.                                                    *)
(***************************************************************************)
NumCams == 1
TicksPerSec == 2
MaxTime == 6
MaxDet == 1
MaxQueue == 5
MaxFaults == 1
MaxPresence == 2
MaxEvents == 2
RunSeconds == 100
ExtraRequests == 1
MaxFrameDet == 3
MaxHost == 4
MaxPlace == 3
PairCams == 2

(***************************************************************************)
(* Program constants.                                                      *)
(***************************************************************************)
FRAME_RATE == 40
GRAFANA_ROW_LIMIT == 10
QUEUE_MAXSIZE == 1000
PERSON_CLASS == 1
CONFIDENCE_PCT == 60
HEARTBEAT_PERIOD == 20
ROLLUP_PERIOD == 60

None == <<>>
Some(x) == <<x>>
IsNone(o) == o = <<>>
Val(o) == o[1]

(***************************************************************************)
(* Text.                                                                   *)
(***************************************************************************)
Digit == <<"0", "1", "2", "3", "4", "5", "6", "7", "8", "9">>
Letters ==
    {"a","b","c","d","e","f","g","h","i","j","k","l","m","n","o","p","q","r",
     "s","t","u","v","w","x","y","z","A","B","C","D","E","F","G","H","I","J",
     "K","L","M","N","O","P","Q","R","S","T","U","V","W","X","Y","Z"}
DigitChars == {Digit[i] : i \in 1..10}
\* the character class [A-Za-z0-9_] of quote_ident
IdentChars == Letters \cup DigitChars \cup {"_"}

RECURSIVE NatToStr(_)
NatToStr(n) ==
    IF n < 10 THEN <<Digit[n + 1]>>
    ELSE NatToStr(n \div 10) \o <<Digit[(n % 10) + 1]>>

\* str(n) of a Python int, as formatted into an f-string
IntToStr(n) == IF n < 0 THEN <<"-">> \o NatToStr(-n) ELSE NatToStr(n)

DigitVal(c) == CHOOSE d \in 0..9 : Digit[d + 1] = c

RECURSIVE StrToInt(_)
\* int(s) of a string of decimal digits
StrToInt(s) ==
    IF Len(s) = 0 THEN 0
    ELSE 10 * StrToInt(SubSeq(s, 1, Len(s) - 1)) + DigitVal(s[Len(s)])

\* re.fullmatch(r"[A-Za-z0-9_]+", ident)
ValidIdent(ident) ==
    /\ Len(ident) > 0
    /\ \A i \in 1..Len(ident) : ident[i] \in IdentChars

SfvisPrefix == <<"s","f","v","i","s">>
CamPrefix == <<"s","f","v","i","s","_","c","a","m">>

\* f"sfvis{cam.sfvis}"
SfvisTable(sfvis) == SfvisPrefix \o sfvis
\* f"sfvis_cam{cam.station}"
CamTable(station) == CamPrefix \o IntToStr(station)

(***************************************************************************)
(* Pure helpers of the detection adapter and the state machine.            *)
(***************************************************************************)
\* a detection: [ClassID, Confidence] with the confidence in percent
Detection(cls, conf) == [ClassID |-> cls, Confidence |-> conf]

\* count_people with the threshold included
count_people_AtLeast(detections) ==
    Cardinality({i \in 1..Len(detections) :
                    /\ detections[i].ClassID = PERSON_CLASS
                    /\ detections[i].Confidence >= CONFIDENCE_PCT})

\* count_people(detections)
count_people(detections) ==
    Cardinality({i \in 1..Len(detections) :
                    /\ detections[i].ClassID = PERSON_CLASS
                    /\ detections[i].Confidence > CONFIDENCE_PCT})

workstation_for(sfvis, camera_place) ==
    IF camera_place = 1 THEN StrToInt(sfvis) * 2 - 1 ELSE StrToInt(sfvis) * 2

status_from_people(n) == IF n # 0 THEN "Occupied" ELSE "Vacant"

\* str(timedelta(seconds=...)): hours, minutes, seconds and the sub-second rest
fmt_elapsed(ticks) ==
    LET secs == ticks \div TicksPerSec
    IN  [h |-> secs \div 3600,
         m |-> (secs % 3600) \div 60,
         s |-> secs % 60,
         frac |-> ticks % TicksPerSec]

Camera(index, station, sfvis) ==
    [index |-> index, station |-> station, sfvis |-> sfvis,
     cap |-> FALSE,
     previous_status |-> "Vacant", status |-> "Vacant", people_count |-> 0,
     time_started |-> None, time_spent |-> None,
     presence_total |-> 0, presence_60 |-> 0, presence_rate |-> 0,
     pause |-> FALSE, checkpoint |-> None, check_time |-> 0]


(***************************************************************************)
(* DBWriter: the bounded queue.  A writer view w carries the queue and     *)
(* the history of one call: q, n (requests offered so far), dropped (the   *)
(* requests refused because the queue was full) and calls (the events      *)
(* handed to publish_event).                                               *)
(***************************************************************************)
STOP == "__STOP__"

Request(query, table, params, seq) ==
    [query |-> query, table |-> table, params |-> params, seq |-> seq]

View(queue, n) == [q |-> queue, n |-> n, dropped |-> <<>>, calls |-> <<>>]

\* a queue that takes one item more than maxsize
QueueFull_OneMore(queue) == Len(queue) > maxsize

\* queue.Queue.put_nowait: raises queue.Full when the queue holds maxsize items
QueueFull(queue) == Len(queue) >= maxsize

\* an enqueue that makes room in a full queue by discarding its oldest item
enqueue_DropOldest(w, query, table, params) ==
    LET req == Request(query, table, params, w.n + 1)
    IN  IF QueueFull(w.q)
        THEN [w EXCEPT !.n = w.n + 1, !.dropped = Append(w.dropped, Head(w.q)),
                       !.q = Append(Tail(w.q), req)]
        ELSE [w EXCEPT !.n = w.n + 1, !.q = Append(w.q, req)]

\* an enqueue that puts its request at the head of the queue
enqueue_Front(w, query, table, params) ==
    LET req == Request(query, table, params, w.n + 1)
    IN  IF QueueFull(w.q)
        THEN [w EXCEPT !.n = w.n + 1, !.dropped = Append(w.dropped, req)]
        ELSE [w EXCEPT !.n = w.n + 1, !.q = <<req>> \o w.q]

\* DBWriter.enqueue(query, params)
enqueue(w, query, table, params) ==
    LET req == Request(query, table, params, w.n + 1)
    IN  IF QueueFull(w.q)
        THEN [w EXCEPT !.n = w.n + 1, !.dropped = Append(w.dropped, req)]
        ELSE [w EXCEPT !.n = w.n + 1, !.q = Append(w.q, req)]

\* the backtick character that quotes a MySQL identifier
Backtick == "bt"

\* quote_ident: the identifier wrapped in backticks (the caller checks ValidIdent
\* first; an invalid identifier raises ValueError)
quote_ident(ident) == <<Backtick>> \o ident \o <<Backtick>>

\* the table a quoted identifier names
Unquote(t) == SubSeq(t, 2, Len(t) - 1)

\* create_tables_for_camera that queues the CREATE of the host table only
create_tables_for_camera_HostOnly(w, sfvis, station) ==
    IF ~ValidIdent(SfvisTable(sfvis)) \/ ~ValidIdent(CamTable(station))
    THEN [w |-> w, raised |-> TRUE]
    ELSE [w |-> enqueue(w, "CREATE", quote_ident(SfvisTable(sfvis)), <<>>),
          raised |-> FALSE]

\* create_tables_for_camera: raises before anything is enqueued when either name
\* is invalid
create_tables_for_camera(w, sfvis, station) ==
    IF ~ValidIdent(SfvisTable(sfvis)) \/ ~ValidIdent(CamTable(station))
    THEN [w |-> w, raised |-> TRUE]
    ELSE [w |-> enqueue(enqueue(w, "CREATE", quote_ident(SfvisTable(sfvis)), <<>>),
                        "CREATE", quote_ident(CamTable(station)), <<>>),
          raised |-> FALSE]

\* enqueue_insert that always takes the statement without the dwell column
enqueue_insert_NoTime(w, table_name, values, include_time) ==
    IF ~ValidIdent(table_name)
    THEN [w |-> w, raised |-> TRUE]
    ELSE [w |-> enqueue(w, "INSERT_NO_TIME", quote_ident(table_name), values),
          raised |-> FALSE]

\* enqueue_insert(dbw, table_name, values, include_time)
enqueue_insert(w, table_name, values, include_time) ==
    IF ~ValidIdent(table_name)
    THEN [w |-> w, raised |-> TRUE]
    ELSE [w |-> enqueue(w,
                        IF include_time THEN "INSERT_WITH_TIME" ELSE "INSERT_NO_TIME",
                        quote_ident(table_name), values),
          raised |-> FALSE]

\* the values tuple publish_event builds
EventData(cam, time_spent, presence_rate, presence_total) ==
    IF ~IsNone(time_spent)
    THEN <<now, cam.station, cam.sfvis, cam.previous_status, Val(time_spent),
           cam.status, cam.people_count, FRAME_RATE, presence_total, presence_rate>>
    ELSE <<now, cam.station, cam.sfvis, cam.previous_status,
           cam.status, cam.people_count, FRAME_RATE, presence_total, presence_rate>>

\* publish_event with the retention requests sent to the host table
publish_event_HostRetention(w, cam, time_spent, presence_rate, presence_total) ==
    LET include_time == ~IsNone(time_spent)
        data == EventData(cam, time_spent, presence_rate, presence_total)
        sfvis_table == SfvisTable(cam.sfvis)
        cam_table == CamTable(cam.station)
        w0 == [w EXCEPT !.calls = Append(w.calls, data)]
        r1 == enqueue_insert(w0, sfvis_table, data, include_time)
        r2 == enqueue_insert(r1.w, cam_table, data, include_time)
        w3 == enqueue(r2.w, "COUNT", quote_ident(sfvis_table), <<>>)
        w4 == enqueue(w3, "DELETE_OLDEST_ONE", quote_ident(sfvis_table), <<>>)
    IN  IF r1.raised THEN [w |-> r1.w, raised |-> TRUE]
        ELSE IF r2.raised THEN [w |-> r2.w, raised |-> TRUE]
        ELSE [w |-> w4, raised |-> FALSE]

\* publish_event(dbw, cam, time_spent, presence_rate, presence_total)
publish_event(w, cam, time_spent, presence_rate, presence_total) ==
    LET include_time == ~IsNone(time_spent)
        data == EventData(cam, time_spent, presence_rate, presence_total)
        sfvis_table == SfvisTable(cam.sfvis)
        cam_table == CamTable(cam.station)
        w0 == [w EXCEPT !.calls = Append(w.calls, data)]
        r1 == enqueue_insert(w0, sfvis_table, data, include_time)
        r2 == enqueue_insert(r1.w, cam_table, data, include_time)
        w3 == enqueue(r2.w, "COUNT", quote_ident(cam_table), <<>>)
        w4 == enqueue(w3, "DELETE_OLDEST_ONE", quote_ident(cam_table), <<>>)
    IN  IF r1.raised THEN [w |-> r1.w, raised |-> TRUE]
        ELSE IF r2.raised THEN [w |-> r2.w, raised |-> TRUE]
        ELSE [w |-> w4, raised |-> FALSE]

(***************************************************************************)
(* Presence state machine and aggregation scheduler.  Each returns the     *)
(* camera, the writer view and whether an exception left the function.     *)
(***************************************************************************)
Result(cam, w, raised) == [cam |-> cam, w |-> w, raised |-> raised]

\* handle_status_transitions without the assignments to previous_status
handle_status_transitions_NoUpdate(w, cam) ==
    IF cam.status = cam.previous_status THEN Result(cam, w, FALSE)
    ELSE IF cam.status = "Occupied" /\ cam.previous_status = "Vacant"
    THEN LET c1 == [cam EXCEPT !.time_started = Some(now)]
             p == publish_event(w, c1, None, c1.presence_rate, c1.presence_total)
         IN  Result(c1, p.w, p.raised)
    ELSE IF cam.status = "Vacant" /\ cam.previous_status = "Occupied"
    THEN LET c1 == [cam EXCEPT !.presence_rate = cam.presence_rate + 1,
                               !.time_spent = Some(fmt_elapsed(0))]
             p == publish_event(w, c1, c1.time_spent, c1.presence_rate,
                                c1.presence_total)
         IN  Result([c1 EXCEPT !.time_started = None, !.time_spent = None],
                    p.w, p.raised)
    ELSE Result(cam, w, FALSE)

\* handle_status_transitions always taking the dwell of an unset time_started
handle_status_transitions_ZeroDwell(w, cam) ==
    IF cam.status = cam.previous_status THEN Result(cam, w, FALSE)
    ELSE IF cam.status = "Occupied" /\ cam.previous_status = "Vacant"
    THEN LET c1 == [cam EXCEPT !.time_started = Some(now)]
             p == publish_event(w, c1, None, c1.presence_rate, c1.presence_total)
         IN  Result([c1 EXCEPT !.previous_status = "Occupied"], p.w, p.raised)
    ELSE IF cam.status = "Vacant" /\ cam.previous_status = "Occupied"
    THEN LET c2 == [cam EXCEPT !.presence_rate = cam.presence_rate + 1,
                               !.time_spent = Some(fmt_elapsed(0))]
             p == publish_event(w, c2, c2.time_spent, c2.presence_rate,
                                c2.presence_total)
         IN  Result([c2 EXCEPT !.previous_status = "Vacant",
                                !.time_started = None,
                                !.time_spent = None], p.w, p.raised)
    ELSE Result(cam, w, FALSE)

\* handle_status_transitions without the assignment to time_started
handle_status_transitions_NoStart(w, cam) ==
    IF cam.status = cam.previous_status THEN Result(cam, w, FALSE)
    ELSE IF cam.status = "Occupied" /\ cam.previous_status = "Vacant"
    THEN LET p == publish_event(w, cam, None, cam.presence_rate, cam.presence_total)
         IN  Result([cam EXCEPT !.previous_status = "Occupied"], p.w, p.raised)
    ELSE IF cam.status = "Vacant" /\ cam.previous_status = "Occupied"
    THEN LET c1 == [cam EXCEPT !.presence_rate = cam.presence_rate + 1]
             c2 == [c1 EXCEPT !.time_spent =
                        IF ~IsNone(c1.time_started)
                        THEN Some(fmt_elapsed(now - Val(c1.time_started)))
                        ELSE Some(fmt_elapsed(0))]
             p == publish_event(w, c2, c2.time_spent, c2.presence_rate,
                                c2.presence_total)
         IN  Result([c2 EXCEPT !.previous_status = "Vacant",
                                !.time_started = None,
                                !.time_spent = None], p.w, p.raised)
    ELSE Result(cam, w, FALSE)

\* handle_status_transitions that restarts the visit at every Occupied observation
handle_status_transitions_Restart(w, cam) ==
    IF cam.status = cam.previous_status
    THEN Result(IF cam.status = "Occupied" THEN [cam EXCEPT !.time_started = Some(now)]
                ELSE cam, w, FALSE)
    ELSE IF cam.status = "Occupied" /\ cam.previous_status = "Vacant"
    THEN LET c1 == [cam EXCEPT !.time_started = Some(now)]
             p == publish_event(w, c1, None, c1.presence_rate, c1.presence_total)
         IN  IF p.raised THEN Result(c1, p.w, TRUE)
             ELSE Result([c1 EXCEPT !.previous_status = "Occupied"], p.w, FALSE)
    ELSE IF cam.status = "Vacant" /\ cam.previous_status = "Occupied"
    THEN LET c1 == [cam EXCEPT !.presence_rate = cam.presence_rate + 1]
             c2 == [c1 EXCEPT !.time_spent =
                        IF ~IsNone(c1.time_started)
                        THEN Some(fmt_elapsed(now - Val(c1.time_started)))
                        ELSE Some(fmt_elapsed(0))]
             p == publish_event(w, c2, c2.time_spent, c2.presence_rate,
                                c2.presence_total)
         IN  IF p.raised THEN Result(c2, p.w, TRUE)
             ELSE Result([c2 EXCEPT !.previous_status = "Vacant",
                                    !.time_started = None,
                                    !.time_spent = None], p.w, FALSE)
    ELSE Result(cam, w, FALSE)

\* handle_status_transitions that keeps time_started and time_spent after an
\* Occupied to Vacant edge
handle_status_transitions_KeepDwell(w, cam) ==
    IF cam.status = cam.previous_status THEN Result(cam, w, FALSE)
    ELSE IF cam.status = "Occupied" /\ cam.previous_status = "Vacant"
    THEN LET c1 == [cam EXCEPT !.time_started = Some(now)]
             p == publish_event(w, c1, None, c1.presence_rate, c1.presence_total)
         IN  IF p.raised THEN Result(c1, p.w, TRUE)
             ELSE Result([c1 EXCEPT !.previous_status = "Occupied"], p.w, FALSE)
    ELSE IF cam.status = "Vacant" /\ cam.previous_status = "Occupied"
    THEN LET c1 == [cam EXCEPT !.presence_rate = cam.presence_rate + 1]
             c2 == [c1 EXCEPT !.time_spent =
                        IF ~IsNone(c1.time_started)
                        THEN Some(fmt_elapsed(now - Val(c1.time_started)))
                        ELSE Some(fmt_elapsed(0))]
             p == publish_event(w, c2, c2.time_spent, c2.presence_rate,
                                c2.presence_total)
         IN  IF p.raised THEN Result(c2, p.w, TRUE)
             ELSE Result([c2 EXCEPT !.previous_status = "Vacant"], p.w, FALSE)
    ELSE Result(cam, w, FALSE)

\* handle_status_transitions that fails on an unset time_started, as a
\* subtraction from None does
handle_status_transitions_NoDefault(w, cam) ==
    IF cam.status = cam.previous_status THEN Result(cam, w, FALSE)
    ELSE IF cam.status = "Occupied" /\ cam.previous_status = "Vacant"
    THEN LET c1 == [cam EXCEPT !.time_started = Some(now)]
             p == publish_event(w, c1, None, c1.presence_rate, c1.presence_total)
         IN  IF p.raised THEN Result(c1, p.w, TRUE)
             ELSE Result([c1 EXCEPT !.previous_status = "Occupied"], p.w, FALSE)
    ELSE IF cam.status = "Vacant" /\ cam.previous_status = "Occupied"
    THEN LET c1 == [cam EXCEPT !.presence_rate = cam.presence_rate + 1]
             c2 == [c1 EXCEPT !.time_spent =
                        Some(fmt_elapsed(now - Val(c1.time_started)))]
             p == publish_event(w, c2, c2.time_spent, c2.presence_rate,
                                c2.presence_total)
         IN  IF IsNone(c1.time_started) THEN Result(c1, w, TRUE)
             ELSE IF p.raised THEN Result(c2, p.w, TRUE)
             ELSE Result([c2 EXCEPT !.previous_status = "Vacant",
                                    !.time_started = None,
                                    !.time_spent = None], p.w, FALSE)
    ELSE Result(cam, w, FALSE)

\* handle_status_transitions that updates previous_status before it publishes
handle_status_transitions_UpdateFirst(w, cam) ==
    IF cam.status = cam.previous_status THEN Result(cam, w, FALSE)
    ELSE IF cam.status = "Occupied" /\ cam.previous_status = "Vacant"
    THEN LET c1 == [cam EXCEPT !.time_started = Some(now),
                               !.previous_status = "Occupied"]
             p == publish_event(w, c1, None, c1.presence_rate, c1.presence_total)
         IN  Result(c1, p.w, p.raised)
    ELSE IF cam.status = "Vacant" /\ cam.previous_status = "Occupied"
    THEN LET c1 == [cam EXCEPT !.presence_rate = cam.presence_rate + 1,
                               !.previous_status = "Vacant"]
             c2 == [c1 EXCEPT !.time_spent =
                        IF ~IsNone(c1.time_started)
                        THEN Some(fmt_elapsed(now - Val(c1.time_started)))
                        ELSE Some(fmt_elapsed(0))]
             p == publish_event(w, c2, c2.time_spent, c2.presence_rate,
                                c2.presence_total)
         IN  IF p.raised THEN Result(c2, p.w, TRUE)
             ELSE Result([c2 EXCEPT !.time_started = None,
                                    !.time_spent = None], p.w, FALSE)
    ELSE Result(cam, w, FALSE)

\* handle_status_transitions(dbw, cam)
handle_status_transitions(w, cam) ==
    IF cam.status = cam.previous_status THEN Result(cam, w, FALSE)
    ELSE IF cam.status = "Occupied" /\ cam.previous_status = "Vacant"
    THEN LET c1 == [cam EXCEPT !.time_started = Some(now)]
             p == publish_event(w, c1, None, c1.presence_rate, c1.presence_total)
         IN  IF p.raised THEN Result(c1, p.w, TRUE)
             ELSE Result([c1 EXCEPT !.previous_status = "Occupied"], p.w, FALSE)
    ELSE IF cam.status = "Vacant" /\ cam.previous_status = "Occupied"
    THEN LET c1 == [cam EXCEPT !.presence_rate = cam.presence_rate + 1]
             c2 == [c1 EXCEPT !.time_spent =
                        IF ~IsNone(c1.time_started)
                        THEN Some(fmt_elapsed(now - Val(c1.time_started)))
                        ELSE Some(fmt_elapsed(0))]
             p == publish_event(w, c2, c2.time_spent, c2.presence_rate,
                                c2.presence_total)
         IN  IF p.raised THEN Result(c2, p.w, TRUE)
             ELSE Result([c2 EXCEPT !.previous_status = "Vacant",
                                    !.time_started = None,
                                    !.time_spent = None], p.w, FALSE)
    ELSE Result(cam, w, FALSE)

\* the rollup without the reset of the window counter
Rollup_NoReset(cam, elapsed_sec) ==
    IF elapsed_sec % ROLLUP_PERIOD = 0
    THEN [cam EXCEPT !.presence_total = cam.presence_total + cam.presence_rate,
                     !.presence_60 = cam.presence_rate]
    ELSE cam

\* the rollup taking the window out of the lifetime total
Rollup_Subtract(cam, elapsed_sec) ==
    IF elapsed_sec % ROLLUP_PERIOD = 0
    THEN [cam EXCEPT !.presence_total = cam.presence_total - cam.presence_rate,
                     !.presence_60 = cam.presence_rate,
                     !.presence_rate = 0]
    ELSE cam

\* the rollup that resets the window counter without adding it to the total
Rollup_DropWindow(cam, elapsed_sec) ==
    IF elapsed_sec % ROLLUP_PERIOD = 0
    THEN [cam EXCEPT !.presence_60 = cam.presence_rate,
                     !.presence_rate = 0]
    ELSE cam

\* the 60 s rollup at the head of regular_post_if_needed
Rollup(cam, elapsed_sec) ==
    IF elapsed_sec % ROLLUP_PERIOD = 0
    THEN [cam EXCEPT !.presence_total = cam.presence_total + cam.presence_rate,
                     !.presence_60 = cam.presence_rate,
                     !.presence_rate = 0]
    ELSE cam

\* regular_post_if_needed that builds the heartbeat before it rolls up
regular_post_if_needed_PublishFirst(w, cam, elapsed_sec) ==
    LET c1 == Rollup(cam, elapsed_sec)
        p == publish_event(w, cam, None, cam.presence_60, cam.presence_total)
    IN  Result(c1, p.w, p.raised)

\* regular_post_if_needed(dbw, cam, elapsed_sec)
regular_post_if_needed(w, cam, elapsed_sec) ==
    LET c1 == Rollup(cam, elapsed_sec)
        p == publish_event(w, c1, None, c1.presence_60, c1.presence_total)
    IN  Result(c1, p.w, p.raised)

\* the periodics body with the heartbeat on the rollup period
Periodic_RollupPeriod(w, cam, elapsed_sec) ==
    LET c0 == [cam EXCEPT !.check_time = elapsed_sec]
    IN  IF ~c0.pause /\ (elapsed_sec % ROLLUP_PERIOD = 0)
        THEN regular_post_if_needed(w, [c0 EXCEPT !.checkpoint = Some(now)],
                                    elapsed_sec)
        ELSE Result(c0, w, FALSE)

\* the periodics body that releases only at exactly one second after the
\* heartbeat
Periodic_ExactSecond(w, cam, elapsed_sec) ==
    LET c0 == [cam EXCEPT !.check_time = elapsed_sec]
        fire == ~c0.pause /\ (elapsed_sec % HEARTBEAT_PERIOD = 0)
        r == IF fire
             THEN regular_post_if_needed(w, [c0 EXCEPT !.checkpoint = Some(now)],
                                         elapsed_sec)
             ELSE Result(c0, w, FALSE)
        c2 == IF ~IsNone(r.cam.checkpoint)
                 /\ now - Val(r.cam.checkpoint) = TicksPerSec
              THEN [r.cam EXCEPT !.pause = FALSE, !.checkpoint = None]
              ELSE r.cam
    IN  IF r.raised THEN r ELSE Result(c2, r.w, FALSE)

\* the per-camera body of the periodics loop of main
Periodic(w, cam, elapsed_sec) ==
    LET c0 == [cam EXCEPT !.check_time = elapsed_sec]
        fire == ~c0.pause /\ (elapsed_sec % HEARTBEAT_PERIOD = 0)
        r == IF fire
             THEN regular_post_if_needed(w, [c0 EXCEPT !.checkpoint = Some(now)],
                                         elapsed_sec)
             ELSE Result(c0, w, FALSE)
        c2 == IF ~IsNone(r.cam.checkpoint)
                 /\ now - Val(r.cam.checkpoint) >= TicksPerSec
              THEN [r.cam EXCEPT !.pause = FALSE, !.checkpoint = None]
              ELSE r.cam
    IN  IF r.raised THEN r ELSE Result(c2, r.w, FALSE)


(***************************************************************************)
(* The store.  A table is a sequence of rows in insertion order; the       *)
(* connection sees its own uncommitted statements (view), everyone else    *)
(* the committed tables.                                                   *)
(***************************************************************************)
\* the row INSERT_TEMPLATE_WITH_TIME writes from a values tuple
RowWithTime(p) ==
    [Timestamp |-> p[1], Workstation_Camera |-> p[2], Vision_System |-> p[3],
     Old_Status |-> p[4], Period_Status_Last |-> Some(p[5]), New_Status |-> p[6],
     People_Count |-> p[7], Frame_Rate |-> p[8],
     Presence_Change_Total |-> p[9], Presence_Change_Rate |-> p[10]]

\* the row INSERT_TEMPLATE_NO_TIME writes: Period_Status_Last takes its default
RowNoTime(p) ==
    [Timestamp |-> p[1], Workstation_Camera |-> p[2], Vision_System |-> p[3],
     Old_Status |-> p[4], Period_Status_Last |-> None, New_Status |-> p[5],
     People_Count |-> p[6], Frame_Rate |-> p[7],
     Presence_Change_Total |-> p[8], Presence_Change_Rate |-> p[9]]

\* the positions of the rows with the least Timestamp
OldestIdx(rows) ==
    {i \in 1..Len(rows) : \A j \in 1..Len(rows) : rows[i].Timestamp <= rows[j].Timestamp}

RemoveAt(rows, k) == SubSeq(rows, 1, k - 1) \o SubSeq(rows, k + 1, Len(rows))

\* DELETE FROM t ORDER BY Timestamp ASC LIMIT 1: one row goes, whatever the count
DeleteOldestOne(rows, k) == IF k \in OldestIdx(rows) THEN RemoveAt(rows, k) ELSE rows

\* whether the store accepts the statement (a table must exist to be used)
Accepts(view, req) == req.query = "CREATE" \/ Unquote(req.table) \in DOMAIN view

\* the store after executing the statement; k picks the row a DELETE removes
Execute(view, req, k) ==
    LET t == Unquote(req.table)
    IN  CASE req.query = "CREATE" ->
                 IF t \in DOMAIN view THEN view ELSE (t :> <<>>) @@ view
          [] req.query = "INSERT_WITH_TIME" ->
                 [view EXCEPT ![t] = Append(@, RowWithTime(req.params))]
          [] req.query = "INSERT_NO_TIME" ->
                 [view EXCEPT ![t] = Append(@, RowNoTime(req.params))]
          [] req.query = "DELETE_OLDEST_ONE" ->
                 [view EXCEPT ![t] = DeleteOldestOne(@, k)]
          [] OTHER -> view

\* what the connection sees: its uncommitted view, or the committed tables
View_(tbls, unc) == IF IsNone(unc) THEN tbls ELSE Val(unc)

(***************************************************************************)
(* DBWriter: the worker.  One pass of the loop body handles the request    *)
(* under an outcome of the store calls it makes.                           *)
(***************************************************************************)
Outcomes ==
    {"ok", "connect_Error", "connect_Exception", "cursor_Error", "cursor_Exception",
     "execute_Error", "execute_Exception", "commit_Error", "commit_Exception"}

ConnectOutcomes ==
    {"connect_Error", "connect_Exception", "cursor_Error", "cursor_Exception"}

\* mysql.connector.Error, caught by the first handler
IsError(o) == o \in {"connect_Error", "cursor_Error", "execute_Error", "commit_Error"}
\* any other exception, caught by the second handler
IsException(o) ==
    o \in {"connect_Exception", "cursor_Exception", "execute_Exception",
           "commit_Exception"}

\* a writer connection state
Db(c, cur, unc) == [conn |-> c, cursor |-> cur, pending |-> unc]

\* DBWriter._close
close_(db) == Db("None", "None", None)

\* _ensure's test: self._conn is None or not self._conn.is_connected()
NeedConnect(db) == db.conn = "None" \/ db.conn = "lost"

\* DBWriter._ensure under outcome o: the state it leaves, and whether it raised
ensure_(db, o) ==
    IF ~NeedConnect(db) THEN [db |-> db, raised |-> FALSE]
    ELSE IF o \in {"connect_Error", "connect_Exception"}
    THEN [db |-> close_(db), raised |-> TRUE]
    ELSE IF o \in {"cursor_Error", "cursor_Exception"}
    THEN [db |-> Db("open", "None", None), raised |-> TRUE]
    ELSE [db |-> Db("open", "cursor", None), raised |-> FALSE]

\* the first except clause without its call of _close
OnError_NoClose(db) == db

\* the first except clause of _worker: except Error -> self._close()
OnError(db) == close_(db)

\* the second except clause of _worker: except Exception -> log only
OnException(db) == db

\* whether outcome o can be what happens to request req in state db
Possible(db, tbls, req, o) ==
    LET e == ensure_(db, "ok")
    IN  /\ o \in ConnectOutcomes => NeedConnect(db)
        /\ (~NeedConnect(db) /\ db.cursor = "None") => o = "execute_Exception"
        /\ ~Accepts(View_(tbls, e.db.pending), req)
               => o \in ConnectOutcomes \cup {"execute_Error", "execute_Exception"}

\* whether outcome o is a fault of the store, not the answer the store must give
Injected(db, tbls, req, o) ==
    /\ o # "ok"
    /\ ~(~NeedConnect(db) /\ db.cursor = "None")
    /\ ~(o = "execute_Error" /\ ~Accepts(View_(tbls, ensure_(db, "ok").db.pending), req))

\* the body of the worker loop for one request: [db, tables, executed, connected]
handle(db, tbls, req, o, k) ==
    LET e == ensure_(db, o)
        seen == View_(tbls, e.db.pending)
        after == Execute(seen, req, k)
        ddl == req.query = "CREATE"
    IN  IF e.raised
        THEN [db |-> IF IsError(o) THEN OnError(e.db) ELSE OnException(e.db),
              tables |-> tbls, executed |-> FALSE, connected |-> FALSE]
        ELSE IF o = "execute_Error"
        THEN [db |-> OnError(e.db), tables |-> tbls, executed |-> TRUE,
              connected |-> NeedConnect(db)]
        ELSE IF o = "execute_Exception"
        THEN [db |-> OnException(e.db), tables |-> tbls,
              executed |-> e.db.cursor # "None", connected |-> NeedConnect(db)]
        ELSE IF o = "commit_Error"
        THEN [db |-> OnError(e.db), tables |-> IF ddl THEN after ELSE tbls,
              executed |-> TRUE, connected |-> NeedConnect(db)]
        ELSE IF o = "commit_Exception"
        THEN [db |-> OnException([e.db EXCEPT !.pending =
                                      IF ddl THEN None ELSE Some(after)]),
              tables |-> IF ddl THEN after ELSE tbls,
              executed |-> TRUE, connected |-> NeedConnect(db)]
        ELSE [db |-> [e.db EXCEPT !.pending = None], tables |-> after,
              executed |-> TRUE, connected |-> NeedConnect(db)]


(***************************************************************************)
(* The program: main (the acquisition thread) and the writer thread.       *)
(***************************************************************************)
Cams == 1..NumCams

\* the digits find_sfvis_no takes from the host name
SFVIS == <<"0", "1">>

\* the detection lists a frame can yield
Detections ==
    UNION {[1..n -> {Detection(PERSON_CLASS, CONFIDENCE_PCT + 1),
                     Detection(PERSON_CLASS, CONFIDENCE_PCT),
                     Detection(PERSON_CLASS + 1, CONFIDENCE_PCT + 1)}] : n \in 0..MaxDet}

At(at, i) == [at |-> at, i |-> i]

NoCamera == Camera(0, 0, <<>>)

\* history record of a main-thread step
\* (entered keeps, per camera, the presence_rate its last Vacant to Occupied
\* event carried)
Last(op, i, pre, w, raised) ==
    [op |-> op, cam |-> i, pre |-> pre, calls |-> w.calls, dropped |-> w.dropped,
     raised |-> raised,
     entered |-> IF op = "start" THEN [c \in Cams |-> 0]
                 ELSE IF /\ op = "observe"
                         /\ w.calls # <<>>
                         /\ Len(w.calls[1]) = 9
                         /\ w.calls[1][5] = "Occupied"
                 THEN [last.entered EXCEPT ![i] = w.calls[1][9]]
                 ELSE last.entered]

\* history record of a writer-thread step
WLast(op, seq, o, executed, connected, prev) ==
    [op |-> op, seq |-> seq, outcome |-> o, executed |-> executed,
     connected |-> connected, prev |-> prev]

NoItem == Request("", <<>>, <<>>, 0)

RECURSIVE CreateAll(_, _, _)
\* main: for cam in cameras.values(): create_tables_for_camera(...)
CreateAll(w, cams, i) ==
    IF i > Len(cams) THEN w
    ELSE CreateAll(create_tables_for_camera(w, cams[i].sfvis, cams[i].station).w,
                   cams, i + 1)

\* the registry main builds, before the capture devices are opened
Registry == [i \in Cams |-> Camera(i - 1, workstation_for(SFVIS, i), SFVIS)]

\* DBWriter.__init__ and start: no connection, the thread waiting on the queue
InitWriter ==
    /\ conn = "None"
    /\ cursor = "None"
    /\ pending = None
    /\ wpc = "get"
    /\ item = NoItem
    /\ faults = 0
    /\ wlast = WLast("start", 0, "ok", FALSE, FALSE, "ok")

\* main up to its loop: registry built, tables queued, captures opened or not
InitMain(size, at) ==
    /\ maxsize = size
    /\ \E caps \in [Cams -> BOOLEAN] :
           cameras = [i \in Cams |-> [Registry[i] EXCEPT !.cap = caps[i]]]
    /\ now = 0
    /\ elapsed = 0
    /\ pc = At(at, 0)
    /\ stop_event = FALSE
    /\ LET w == CreateAll(View(<<>>, 0), Registry, 1)
       IN  /\ q = w.q
           /\ nEnq = w.n
           /\ last = Last("start", 0, NoCamera, w, FALSE)

Init ==
    /\ InitMain(MaxQueue, "top")
    /\ InitWriter
    /\ tables = <<>>

writerVars == <<conn, cursor, pending, wpc, item, tables, faults, wlast>>
mainVars == <<cameras, now, elapsed, pc, stop_event, last>>

NextCam(at, i, after) == IF i < Len(cameras) THEN At(at, i + 1) ELSE At(after, 0)

\* while not stop_event.is_set()
LoopTop ==
    /\ pc.at = "top"
    /\ pc' = IF stop_event THEN At("finally", 0) ELSE At("acquire", 1)
    /\ last' = Last("top", 0, NoCamera, View(q, nEnq), FALSE)
    /\ UNCHANGED <<cameras, now, elapsed, stop_event, q, maxsize, nEnq, writerVars>>

\* if cam.cap is None: continue
AcquireSkip(i) ==
    /\ pc = At("acquire", i)
    /\ ~cameras[i].cap
    /\ pc' = NextCam("acquire", i, "elapsed")
    /\ last' = Last("skip", i, cameras[i], View(q, nEnq), FALSE)
    /\ UNCHANGED <<cameras, now, elapsed, stop_event, q, maxsize, nEnq, writerVars>>

\* a failed read taken for a frame without people
AcquireReadFail_AsNobody(i) ==
    /\ pc = At("acquire", i)
    /\ cameras[i].cap
    /\ cameras' = [cameras EXCEPT ![i].people_count = 0, ![i].status = "Vacant"]
    /\ pc' = NextCam("acquire", i, "elapsed")
    /\ last' = Last("read_failed", i, cameras[i], View(q, nEnq), FALSE)
    /\ UNCHANGED <<now, elapsed, stop_event, q, maxsize, nEnq, writerVars>>

\* a failed read that leaves the for loop (break) instead of going on to the
\* next camera
AcquireReadFail_Break(i) ==
    /\ pc = At("acquire", i)
    /\ cameras[i].cap
    /\ pc' = At("elapsed", 0)
    /\ last' = Last("read_failed", i, cameras[i], View(q, nEnq), FALSE)
    /\ UNCHANGED <<cameras, now, elapsed, stop_event, q, maxsize, nEnq, writerVars>>

\* ret, frame = cam.cap.read(); if not ret or frame is None: continue
AcquireReadFail(i) ==
    /\ pc = At("acquire", i)
    /\ cameras[i].cap
    /\ pc' = NextCam("acquire", i, "elapsed")
    /\ last' = Last("read_failed", i, cameras[i], View(q, nEnq), FALSE)
    /\ UNCHANGED <<cameras, now, elapsed, stop_event, q, maxsize, nEnq, writerVars>>

\* cudaFromNumpy(frame) or model.Detect(cuda_img) raises: nothing in the loop
\* catches it, so it leaves the for and the while for the finally block
DetectFail(i) ==
    /\ pc = At("acquire", i)
    /\ cameras[i].cap
    /\ pc' = At("finally", 0)
    /\ last' = Last("detect_failed", i, cameras[i], View(q, nEnq), TRUE)
    /\ UNCHANGED <<cameras, now, elapsed, stop_event, q, maxsize, nEnq, writerVars>>

\* detection, people_count, status, handle_status_transitions
Observe(i, detections) ==
    /\ pc = At("acquire", i)
    /\ cameras[i].cap
    /\ LET n == count_people(detections)
           c1 == [cameras[i] EXCEPT !.people_count = n,
                                    !.status = status_from_people(n)]
           r == handle_status_transitions(View(q, nEnq), c1)
       IN  /\ r.cam.presence_rate + r.cam.presence_total <= MaxPresence
           /\ cameras' = [cameras EXCEPT ![i] = r.cam]
           /\ q' = r.w.q
           /\ nEnq' = r.w.n
           /\ pc' = IF r.raised THEN At("finally", 0)
                    ELSE NextCam("acquire", i, "elapsed")
           /\ last' = Last("observe", i, cameras[i], r.w, r.raised)
    /\ UNCHANGED <<now, elapsed, stop_event, maxsize, writerVars>>

\* elapsed = int(time.perf_counter() - overall_start)
ReadElapsed ==
    /\ pc.at = "elapsed"
    /\ elapsed' = now \div TicksPerSec
    /\ pc' = At("periodic", 1)
    /\ last' = Last("elapsed", 0, NoCamera, View(q, nEnq), FALSE)
    /\ UNCHANGED <<cameras, now, stop_event, q, maxsize, nEnq, writerVars>>

\* the periodics of one camera
PeriodicStep(i) ==
    /\ pc = At("periodic", i)
    /\ LET r == Periodic(View(q, nEnq), cameras[i], elapsed)
       IN  /\ cameras' = [cameras EXCEPT ![i] = r.cam]
           /\ q' = r.w.q
           /\ nEnq' = r.w.n
           /\ pc' = IF r.raised THEN At("finally", 0)
                    ELSE NextCam("periodic", i, "sleep")
           /\ last' = Last("periodic", i, cameras[i], r.w, r.raised)
    /\ UNCHANGED <<now, elapsed, stop_event, maxsize, writerVars>>

\* the FPS limiter: the iteration has taken d ticks when the next one starts
Sleep(d, horizon) ==
    /\ pc.at = "sleep"
    /\ now + d <= horizon
    /\ now' = now + d
    /\ pc' = At("top", 0)
    /\ last' = Last("sleep", 0, NoCamera, View(q, nEnq), FALSE)
    /\ UNCHANGED <<cameras, elapsed, stop_event, q, maxsize, nEnq, writerVars>>

\* _shutdown, the SIGINT / SIGTERM handler
Signal ==
    /\ ~stop_event
    /\ pc.at \notin {"stop_put", "stop_join", "stop_close", "done"}
    /\ stop_event' = TRUE
    /\ UNCHANGED <<cameras, now, elapsed, pc, q, maxsize, nEnq, last, writerVars>>

\* finally: stop_event.set(), release the captures
Finally ==
    /\ pc.at = "finally"
    /\ stop_event' = TRUE
    /\ pc' = At("stop_put", 0)
    /\ last' = Last("finally", 0, NoCamera, View(q, nEnq), last.raised)
    /\ UNCHANGED <<cameras, now, elapsed, q, maxsize, nEnq, writerVars>>

\* DBWriter.stop: self.q.put(sentinel), which blocks while the queue is full
StopPut ==
    /\ pc.at = "stop_put"
    /\ ~QueueFull(q)
    /\ q' = Append(q, Request(STOP, <<>>, <<>>, nEnq + 1))
    /\ nEnq' = nEnq + 1
    /\ pc' = At("stop_join", 0)
    /\ last' = Last("stop_put", 0, NoCamera, View(q, nEnq), FALSE)
    /\ UNCHANGED <<cameras, now, elapsed, stop_event, maxsize, writerVars>>

\* DBWriter.stop: self.thread.join(timeout=5) returns, the thread ended or not
\* (raised records that the timeout ended the wait)
StopJoin ==
    /\ pc.at = "stop_join"
    /\ pc' = At("stop_close", 0)
    /\ last' = Last("stop_join", 0, NoCamera, View(q, nEnq), wpc # "stopped")
    /\ UNCHANGED <<cameras, now, elapsed, stop_event, q, maxsize, nEnq, writerVars>>

\* DBWriter.stop: self._close(), then main returns
StopClose ==
    /\ pc.at = "stop_close"
    /\ LET db == close_(Db(conn, cursor, pending))
       IN  /\ conn' = db.conn
           /\ cursor' = db.cursor
           /\ pending' = db.pending
    /\ pc' = At("done", 0)
    /\ last' = Last("stop_close", 0, NoCamera, View(q, nEnq), FALSE)
    /\ UNCHANGED <<cameras, now, elapsed, stop_event, q, maxsize, nEnq, wpc, item,
                   tables, faults, wlast>>

\* a get that takes the newest item
QueueGet_Newest(queue) ==
    [item |-> queue[Len(queue)], rest |-> SubSeq(queue, 1, Len(queue) - 1)]

\* a get that leaves the item it returns in the queue
QueueGet_Peek(queue) == [item |-> Head(queue), rest |-> queue]

\* queue.Queue.get: the oldest item
QueueGet(queue) == [item |-> Head(queue), rest |-> Tail(queue)]

\* _worker: query, params = self.q.get(); if query == STOP: break
WorkerGet ==
    /\ wpc = "get"
    /\ q # <<>>
    /\ item' = QueueGet(q).item
    /\ q' = QueueGet(q).rest
    /\ wpc' = IF QueueGet(q).item.query = STOP THEN "stopped" ELSE "handle"
    /\ wlast' = [wlast EXCEPT !.op = "get", !.seq = QueueGet(q).item.seq]
    /\ UNCHANGED <<cameras, now, elapsed, pc, stop_event, maxsize, conn, cursor,
                   pending, tables, faults, nEnq, last>>

\* _worker: the try block and its handlers for the request held
WorkerHandle(o, k) ==
    /\ wpc = "handle"
    /\ Possible(Db(conn, cursor, pending), tables, item, o)
    /\ Injected(Db(conn, cursor, pending), tables, item, o) => faults < MaxFaults
    /\ faults' = IF Injected(Db(conn, cursor, pending), tables, item, o)
                 THEN faults + 1 ELSE faults
    /\ LET r == handle(Db(conn, cursor, pending), tables, item, o, k)
       IN  /\ conn' = r.db.conn
           /\ cursor' = r.db.cursor
           /\ pending' = r.db.pending
           /\ tables' = r.tables
           /\ wlast' = WLast("handle", item.seq, o, r.executed, r.connected,
                              wlast.outcome)
    /\ wpc' = "get"
    /\ UNCHANGED <<cameras, now, elapsed, pc, stop_event, q, maxsize, item, nEnq, last>>

\* the server or the network drops the open connection
ServerDrop ==
    /\ conn = "open"
    /\ faults < MaxFaults
    /\ faults' = faults + 1
    /\ conn' = "lost"
    /\ pending' = None
    /\ UNCHANGED <<cameras, now, elapsed, pc, stop_event, q, maxsize, cursor, wpc,
                   item, tables, nEnq, last, wlast>>

\* the rows a DELETE may pick from, seen from the connection
DeleteChoices ==
    IF /\ item.query = "DELETE_OLDEST_ONE"
       /\ Unquote(item.table) \in DOMAIN View_(tables, pending)
    THEN LET idx == OldestIdx(View_(tables, pending)[Unquote(item.table)])
         IN  IF idx = {} THEN {0} ELSE idx
    ELSE {0}

(***************************************************************************)
(* The whole program.  Its state space is the product of the two threads   *)
(* and of the store; the properties below are checked on the parts of it   *)
(* that decide them, which share these actions.                            *)
(***************************************************************************)
Next ==
    \/ LoopTop
    \/ \E i \in Cams : AcquireSkip(i)
    \/ \E i \in Cams : AcquireReadFail(i)
    \/ \E i \in Cams : DetectFail(i)
    \/ \E i \in Cams : \E d \in Detections : Observe(i, d)
    \/ ReadElapsed
    \/ \E i \in Cams : PeriodicStep(i)
    \/ \E d \in 1..MaxTime : Sleep(d, MaxTime)
    \/ Signal
    \/ Finally
    \/ StopPut
    \/ StopJoin
    \/ StopClose
    \/ WorkerGet
    \/ \E o \in Outcomes : \E k \in DeleteChoices : WorkerHandle(o, k)
    \/ ServerDrop

Spec == Init /\ [][Next]_vars

(***************************************************************************)
(* The acquisition thread alone: the writer thread is not scheduled (it is *)
(* stalled in a store round trip), so the queue fills and then refuses.    *)
(* Nothing the acquisition thread reads is written by the writer thread    *)
(* but the queue.                                                          *)
(***************************************************************************)
NextLoop ==
    \/ LoopTop
    \/ \E i \in Cams : AcquireSkip(i)
    \/ \E i \in Cams : AcquireReadFail(i)
    \/ \E i \in Cams : DetectFail(i)
    \/ \E i \in Cams : \E d \in Detections : Observe(i, d)
    \/ ReadElapsed
    \/ \E i \in Cams : PeriodicStep(i)
    \/ \E d \in 1..MaxTime : Sleep(d, MaxTime)
    \/ Signal
    \/ Finally
    \/ StopPut
    \/ StopJoin
    \/ StopClose

SpecLoop == Init /\ [][NextLoop]_vars

(***************************************************************************)
(* The acquisition thread alone with the queue at its real capacity, so    *)
(* that no request of the run is dropped.                                  *)
(***************************************************************************)
InitRoomy ==
    /\ InitMain(QUEUE_MAXSIZE, "top")
    /\ InitWriter
    /\ tables = <<>>

SpecRoomy == InitRoomy /\ [][NextLoop]_vars

(***************************************************************************)
(* The acquisition thread iterating exactly once per second for            *)
(* RunSeconds seconds, never signalled.                                    *)
(***************************************************************************)
NextOneHz ==
    \/ LoopTop
    \/ \E i \in Cams : AcquireSkip(i)
    \/ \E i \in Cams : AcquireReadFail(i)
    \/ \E i \in Cams : \E d \in Detections : Observe(i, d)
    \/ ReadElapsed
    \/ \E i \in Cams : PeriodicStep(i)
    \/ Sleep(TicksPerSec, RunSeconds * TicksPerSec)

SpecOneHz == Init /\ [][NextOneHz]_vars

(***************************************************************************)
(* A client of the publisher and the writer: it publishes events of        *)
(* camera 1 while the clock runs, then stops the writer.                   *)
(***************************************************************************)
\* the events published so far, four requests each after the table creations
Published == (nEnq - Len(CreateAll(View(<<>>, 0), Registry, 1).q)) \div 4

\* the dwell values a published event may carry
TimeSpentInputs == {None, Some(fmt_elapsed(TicksPerSec))}

\* a call of publish_event(dbw, cam, time_spent, presence_rate, presence_total)
ClientPublish(time_spent) ==
    /\ pc.at = "client"
    /\ LET cam == cameras[1]
           r == publish_event(View(q, nEnq), cam, time_spent, cam.presence_rate,
                              cam.presence_total)
       IN  /\ q' = r.w.q
           /\ nEnq' = r.w.n
           /\ last' = Last("publish", 1, cam, r.w, r.raised)
    /\ UNCHANGED <<cameras, now, elapsed, pc, stop_event, maxsize, writerVars>>

\* the clock advances between two calls
Tick ==
    /\ pc.at = "client"
    /\ now < MaxEvents
    /\ now' = now + 1
    /\ UNCHANGED <<cameras, elapsed, pc, stop_event, q, maxsize, nEnq, last,
                   writerVars>>

\* the client calls DBWriter.stop
ClientStop ==
    /\ pc.at = "client"
    /\ pc' = At("stop_put", 0)
    /\ last' = Last("stop", 0, NoCamera, View(q, nEnq), FALSE)
    /\ UNCHANGED <<cameras, now, elapsed, stop_event, q, maxsize, nEnq, writerVars>>

InitClient ==
    /\ InitMain(MaxQueue, "client")
    /\ InitWriter
    /\ tables = <<>>

(***************************************************************************)
(* The durable writer under a client, store faults and shutdown.           *)
(***************************************************************************)
NextWriter ==
    \/ \E t \in TimeSpentInputs : Published < MaxEvents /\ ClientPublish(t)
    \/ Tick
    \/ ClientStop
    \/ StopPut
    \/ StopJoin
    \/ StopClose
    \/ WorkerGet
    \/ \E o \in Outcomes : \E k \in DeleteChoices : WorkerHandle(o, k)
    \/ ServerDrop

SpecWriter == InitClient /\ [][NextWriter]_vars

(***************************************************************************)
(* Sequential publication against a healthy store: an event is published   *)
(* only when the writer has processed everything before it.                *)
(***************************************************************************)
InitRetention ==
    /\ InitMain(QUEUE_MAXSIZE, "client")
    /\ InitWriter
    /\ tables = <<>>

Processed == q = <<>> /\ wpc = "get"

NextRetention ==
    \/ \E t \in TimeSpentInputs :
           Processed /\ Published < MaxEvents /\ ClientPublish(t)
    \/ Tick
    \/ WorkerGet
    \/ \E k \in DeleteChoices : WorkerHandle("ok", k)

SpecRetention == InitRetention /\ [][NextRetention]_vars

(***************************************************************************)
(* publish_event called once for a camera of any identity.                 *)
(***************************************************************************)
IdChars == {"1", "a", "_", "-", " "}
SfvisInputs == UNION {[1..n -> IdChars] : n \in 0..2}
StationInputs == {-1, 0, 1, 12}

InitPublish ==
    /\ maxsize = MaxQueue
    /\ \E sfvis \in SfvisInputs : \E station \in StationInputs :
           cameras = [i \in Cams |-> [Camera(i - 1, station, sfvis) EXCEPT !.cap = TRUE]]
    /\ now = 0
    /\ elapsed = 0
    /\ pc = At("client", 0)
    /\ stop_event = FALSE
    /\ q = <<>>
    /\ nEnq = 0
    /\ last = Last("start", 0, NoCamera, View(<<>>, 0), FALSE)
    /\ InitWriter
    /\ tables = <<>>

NextPublish ==
    \E t \in TimeSpentInputs : last.op = "start" /\ ClientPublish(t)

SpecPublish == InitPublish /\ [][NextPublish]_vars

(***************************************************************************)
(* Backpressure: the client offers QUEUE_MAXSIZE + ExtraRequests requests  *)
(* before the writer thread runs, then the writer thread drains the queue. *)
(***************************************************************************)
Offered == QUEUE_MAXSIZE + ExtraRequests

InitBackpressure ==
    /\ maxsize = QUEUE_MAXSIZE
    /\ cameras = [i \in Cams |-> [Registry[i] EXCEPT !.cap = TRUE]]
    /\ now = 0
    /\ elapsed = 0
    /\ pc = At("client", 0)
    /\ stop_event = FALSE
    /\ q = <<>>
    /\ nEnq = 0
    /\ last = Last("start", 0, NoCamera, View(<<>>, 0), FALSE)
    /\ InitWriter
    /\ tables = (CamTable(cameras[1].station) :> <<>>)

\* a call of DBWriter.enqueue(COUNT_ROWS.format(table=...), tuple())
ClientEnqueue ==
    /\ pc.at = "client"
    /\ nEnq < Offered
    /\ LET w == enqueue(View(q, nEnq), "COUNT",
                        quote_ident(CamTable(cameras[1].station)), <<>>)
       IN  /\ q' = w.q
           /\ nEnq' = w.n
           /\ last' = Last("enqueue", 1, cameras[1], w, FALSE)
           /\ pc' = IF w.n = Offered THEN At("enqueued", 0) ELSE pc
    /\ UNCHANGED <<cameras, now, elapsed, stop_event, maxsize, writerVars>>

NextBackpressure ==
    \/ ClientEnqueue
    \/ pc.at = "enqueued" /\ WorkerGet
    \/ \E o \in Outcomes : pc.at = "enqueued" /\ WorkerHandle(o, 0)
    \/ ServerDrop

\* the writer thread, once started, is scheduled again and again
SpecBackpressure ==
    /\ InitBackpressure
    /\ [][NextBackpressure]_vars
    /\ WF_vars(pc.at = "enqueued" /\ WorkerGet)
    /\ WF_vars(\E o \in Outcomes : pc.at = "enqueued" /\ WorkerHandle(o, 0))
    /\ WF_vars(ClientEnqueue)

(***************************************************************************)
(* Properties of the state machine and of the scheduler.                   *)
(***************************************************************************)
\* the events the last step of the acquisition thread published
EventsOfLast == Len(last.calls)

\* C1: an observation whose status differs from the status of the camera's
\* previous observation publishes exactly one event, an observation whose
\* status equals it publishes none, and either way the observation leaves
\* previous_status equal to the status it observed.
C1_OneEventPerEdge ==
    last.op = "observe" =>
        LET c == cameras[last.cam]
        IN  /\ last.pre.previous_status = last.pre.status
            /\ EventsOfLast = (IF c.status # last.pre.status THEN 1 ELSE 0)
            /\ c.previous_status = c.status

\* an Occupied to Vacant edge has just published its one event
C1_Witness ==
    /\ last.op = "observe"
    /\ last.pre.status = "Occupied"
    /\ cameras[last.cam].status = "Vacant"
    /\ EventsOfLast = 1

\* C2: a heartbeat is published for a camera at most once per boundary second:
\* no heartbeat is published for a camera whose previous heartbeat, less than
\* one second old and still on record in checkpoint, was published in the
\* same elapsed second.
C2_AtMostOneHeartbeatPerBoundary ==
    (last.op = "periodic" /\ EventsOfLast > 0) =>
        \/ IsNone(last.pre.checkpoint)
        \/ Val(last.pre.checkpoint) \div TicksPerSec # elapsed

\* the boundary seconds of a run of RunSeconds seconds, second 0 included
BoundarySeconds == {s \in 0..RunSeconds : s % HEARTBEAT_PERIOD = 0}

\* C9 (amended): iterating once per second over the elapsed seconds
\* 0..RunSeconds, the heartbeat of a camera is published exactly at
\* 0, 20, 40, 60, 80 and 100, once each, and at no other second.
C9_HeartbeatSeconds ==
    last.op = "periodic" =>
        /\ EventsOfLast = (IF elapsed \in BoundarySeconds THEN 1 ELSE 0)
        /\ elapsed > 0 => last.pre.check_time = elapsed - 1
        /\ BoundarySeconds \cap (0..100) = {0, 20, 40, 60, 80, 100}

\* the heartbeat of second 100 has just been published
C9_Witness ==
    /\ last.op = "periodic"
    /\ elapsed = 100
    /\ EventsOfLast = 1

\* C9 as stated: the heartbeat seconds are 20, 40, 60, 80 and 100 only.
C9_AsStated ==
    last.op = "periodic" =>
        (EventsOfLast = 1 <=> elapsed \in {20, 40, 60, 80, 100})

\* C10: when the scheduler runs for a camera at an elapsed second divisible by
\* 60, the lifetime total grows by the window counter w, the 60-second
\* snapshot becomes w and the window counter becomes 0; at any other second
\* the three counters are left as they were.
C10_Rollup ==
    last.op = "periodic" =>
        LET c == cameras[last.cam]
            w == last.pre.presence_rate
        IN  IF EventsOfLast = 1 /\ elapsed % 60 = 0
            THEN /\ c.presence_total = last.pre.presence_total + w
                 /\ c.presence_60 = w
                 /\ c.presence_rate = 0
            ELSE /\ c.presence_total = last.pre.presence_total
                 /\ c.presence_60 = last.pre.presence_60
                 /\ c.presence_rate = last.pre.presence_rate

\* the rollup of second 60 has just folded a window of two completed visits
C10_Witness ==
    /\ last.op = "periodic"
    /\ elapsed = 60
    /\ last.pre.presence_rate = MaxPresence
    /\ cameras[last.cam].presence_total = last.pre.presence_total + MaxPresence
    /\ cameras[last.cam].presence_rate = 0

(***************************************************************************)
(* Properties of the publisher and of the durable writer.                  *)
(***************************************************************************)
Min(a, b) == IF a <= b THEN a ELSE b

\* the rows of the per-station table and of the host table of camera 1
StationRows ==
    IF CamTable(cameras[1].station) \in DOMAIN tables
    THEN tables[CamTable(cameras[1].station)] ELSE <<>>
HostRows ==
    IF SfvisTable(cameras[1].sfvis) \in DOMAIN tables
    THEN tables[SfvisTable(cameras[1].sfvis)] ELSE <<>>

\* C3: after k sequentially published events have been fully processed by the
\* writer, the per-station table holds min(k, 10) rows, and they are the
\* min(k, 10) most recent events (the tail of the never-pruned host table).
C3_RetentionBound ==
    Processed =>
        LET n == Min(Published, GRAFANA_ROW_LIMIT)
        IN  /\ Len(StationRows) = n
            /\ Len(HostRows) >= n
            /\ StationRows = SubSeq(HostRows, Len(HostRows) - n + 1, Len(HostRows))

\* the outcome with which the worker handled its last request
Handled == wlast.op = "handle"

\* the overflow part of C4: an enqueue drops its request exactly when the
\* queue already holds QUEUE_MAXSIZE requests, so of the requests offered
\* while the worker does not run exactly those after the first 1000 are lost
OverflowDropsTheLast ==
    /\ last.op = "enqueue" =>
           /\ Len(last.dropped) = (IF nEnq > QUEUE_MAXSIZE THEN 1 ELSE 0)
           /\ nEnq > QUEUE_MAXSIZE => last.dropped[1].seq = nEnq
    /\ pc.at = "client" => Len(q) = Min(nEnq, QUEUE_MAXSIZE)

\* the order part of C4: the worker takes the accepted requests 1..1000 one
\* after the other in the order of their enqueueing
DrainsInOrder ==
    pc.at = "enqueued" =>
        /\ \A i \in 1..Len(q) : q[i].seq = item.seq + i
        /\ item.seq + Len(q) = QUEUE_MAXSIZE
        /\ Handled => wlast.seq \in {item.seq, item.seq - 1}

\* the worker has handled the last of the accepted requests
Drained == pc.at = "enqueued" /\ q = <<>> /\ Handled /\ wlast.seq = QUEUE_MAXSIZE

\* C4 (amended): of the 1001 requests offered to the 1000-place queue while
\* the worker does not run, exactly the last is dropped; the 1000 accepted
\* ones are all eventually handled by the worker in the order of their
\* enqueueing, and each is executed unless the worker fails to get its
\* connection and cursor for it.
C4_DropsLastHandlesRestInOrder ==
    /\ [](OverflowDropsTheLast /\ DrainsInOrder)
    /\ []((Handled /\ wlast.outcome = "ok") => wlast.executed)
    /\ []((Handled /\ wlast.outcome \in ConnectOutcomes) => ~wlast.executed)
    /\ <>Drained

\* the queue is drained, one request was dropped at the 1001st enqueue
C4_Witness ==
    /\ Drained
    /\ nEnq = Offered
    /\ Len(last.dropped) = 1
    /\ wlast.executed

\* C4 as stated: the last request is dropped and every accepted request, once
\* the worker has handled it, has been executed.
C4_AsStated ==
    /\ OverflowDropsTheLast
    /\ DrainsInOrder
    /\ Handled => wlast.executed

\* C5: publish_event for a camera one of whose two table names holds a
\* character outside [A-Za-z0-9_] raises and leaves nothing in the queue.
C5_InvalidIdentifierEnqueuesNothing ==
    (/\ last.op = "publish"
     /\ \/ ~ValidIdent(SfvisTable(last.pre.sfvis))
        \/ ~ValidIdent(CamTable(last.pre.station)))
        => (last.raised /\ q = <<>> /\ nEnq = 0)

\* C6 (amended): a store error (mysql.connector Error) while connecting,
\* executing or committing a request makes the worker discard the connection
\* (no connection, no cursor), and the next request it executes is executed
\* on a connection made for it; after any error, store error or not, the
\* worker has not terminated and is back at dequeuing.
C6_StoreErrorDiscardsConnection ==
    Handled =>
        /\ wpc = "get"
        /\ IsError(wlast.outcome) => (conn = "None" /\ cursor = "None" /\ IsNone(pending))
        /\ (IsError(wlast.prev) /\ wlast.executed) => wlast.connected

\* a request has been executed on a new connection after a store error
C6_Witness ==
    /\ Handled
    /\ IsError(wlast.prev)
    /\ wlast.outcome = "ok"
    /\ wlast.executed
    /\ wlast.connected
    /\ conn = "open"

\* C6 as stated: any error of the handling discards the connection.
C6_AsStated ==
    (Handled /\ wlast.outcome # "ok") => (conn = "None" /\ cursor = "None")

\* C7: the queue holds the accepted requests in the order of their
\* acceptance, all of them accepted after the one the worker took last; the
\* worker handles one request at a time, the one it took; and the rows of a
\* table are in the order in which their events were produced.
C7_Fifo ==
    /\ \A i \in 1..(Len(q) - 1) : q[i].seq < q[i + 1].seq
    /\ q # <<>> => item.seq < q[1].seq
    /\ wpc = "handle" => (wlast.op = "get" /\ wlast.seq = item.seq)
    /\ \A t \in DOMAIN tables :
           \A i \in 1..(Len(tables[t]) - 1) :
               tables[t][i].Timestamp <= tables[t][i + 1].Timestamp

\* two events produced at different times are stored, in that order
C7_Witness ==
    /\ Handled
    /\ Len(HostRows) >= 2
    /\ HostRows[1].Timestamp < HostRows[2].Timestamp

\* C8: the worker stops on the sentinel only, with every request accepted
\* before the sentinel handled; and once the worker has stopped and stop has
\* returned, the connection is closed.
C8_SentinelShutdown ==
    /\ wpc = "stopped" =>
           /\ item.query = STOP
           /\ \A i \in 1..Len(q) : q[i].seq > item.seq
    /\ (wpc = "stopped" /\ pc.at = "done") => (conn = "None" /\ cursor = "None")

(***************************************************************************)
(* Further properties of the state machine and of the acquisition loop.    *)
(***************************************************************************)
\* C11: no step of the program, whatever it is (an observation, the
\* periodics, a failed read, a publication whose requests the full queue
\* drops, shutdown), lowers the presence_total of any camera.
C11_PresenceTotalNonDecreasing ==
    [][\A i \in Cams : cameras'[i].presence_total >= cameras[i].presence_total]_vars

\* a rollup has just raised the lifetime total
C11_Witness ==
    /\ last.op = "periodic"
    /\ cameras[last.cam].presence_total > last.pre.presence_total

\* the last step was an observation of an Occupied to Vacant edge
OccupiedToVacant ==
    /\ last.op = "observe"
    /\ last.pre.status = "Occupied"
    /\ cameras[last.cam].status = "Vacant"

\* the last step was an observation of a Vacant to Occupied edge
VacantToOccupied ==
    /\ last.op = "observe"
    /\ last.pre.status = "Vacant"
    /\ cameras[last.cam].status = "Occupied"

\* whether the periodics of a second in s0..(s1 - 1) rolled the window up
RollupBetween(s0, s1) == \E k \in s0..(s1 - 1) : k % ROLLUP_PERIOD = 0

\* C12 (amended): an Occupied to Vacant edge raises presence_rate by 1 and
\* publishes one event with old status Occupied, new status Vacant, the time
\* since the matching Vacant to Occupied edge as dwell and the raised
\* presence_rate, which is 1 more than the Vacant to Occupied event carried
\* unless a 60-second rollup reset the window between the two edges; then
\* time_started is cleared and previous_status is Vacant.
C12_DwellEdge ==
    OccupiedToVacant =>
        LET c == cameras[last.cam]
            p == last.pre
            e == last.calls[1]
        IN  /\ ~IsNone(p.time_started)
            /\ c.presence_rate = p.presence_rate + 1
            /\ EventsOfLast = 1
            /\ Len(e) = 10
            /\ e[4] = "Occupied"
            /\ e[5] = fmt_elapsed(now - Val(p.time_started))
            /\ e[6] = "Vacant"
            /\ e[10] = p.presence_rate + 1
            /\ ~RollupBetween(Val(p.time_started) \div TicksPerSec, now \div TicksPerSec)
                   => e[10] = last.entered[last.cam] + 1
            /\ IsNone(c.time_started)
            /\ c.previous_status = "Vacant"

\* the edges at 0 s and 12 s: the second event carries a dwell of 12 s
C12_Witness ==
    /\ OccupiedToVacant
    /\ last.pre.time_started = Some(0)
    /\ now = 12 * TicksPerSec
    /\ last.calls[1][5] = [h |-> 0, m |-> 0, s |-> 12, frac |-> 0]
    /\ last.calls[1][10] = last.entered[last.cam] + 1

\* C12 as stated: the event of every Occupied to Vacant edge carries a
\* presence_rate 1 higher than the preceding Vacant to Occupied event.
C12_AsStated ==
    OccupiedToVacant =>
        /\ EventsOfLast = 1
        /\ last.calls[1][10] = last.entered[last.cam] + 1

\* C13: every Vacant to Occupied edge, the first and those after a completed
\* dwell alike, sets time_started to the current time, publishes one event
\* without a dwell (old status Vacant, new status Occupied) and leaves
\* previous_status Occupied.
C13_EnterEdge ==
    VacantToOccupied =>
        LET c == cameras[last.cam]
            e == last.calls[1]
        IN  /\ c.time_started = Some(now)
            /\ EventsOfLast = 1
            /\ Len(e) = 9
            /\ e[4] = "Vacant"
            /\ e[5] = "Occupied"
            /\ IsNone(c.time_spent)
            /\ c.previous_status = "Occupied"

\* a Vacant to Occupied edge after a completed dwell, later than the first
C13_Witness ==
    /\ VacantToOccupied
    /\ last.pre.presence_rate + last.pre.presence_total >= 1
    /\ cameras[last.cam].time_started = Some(now)
    /\ now > 0

\* C14: the queue never holds more than its capacity; enqueue is never
\* blocked, whatever the queue holds; on a full queue it drops its request
\* (the drop is what the warning records), raises nothing and leaves the
\* queue as it was, and on any other queue it appends the request.
C14_EnqueueNeverBlocksNorOverflows ==
    /\ [](Len(q) <= QUEUE_MAXSIZE)
    /\ []((pc.at = "client" /\ nEnq < Offered) => ENABLED ClientEnqueue)
    /\ [][nEnq' # nEnq =>
              /\ ~last'.raised
              /\ IF Len(q) >= QUEUE_MAXSIZE
                 THEN /\ q' = q
                      /\ Len(last'.dropped) = 1
                      /\ last'.dropped[1].seq = nEnq'
                 ELSE /\ Len(q') = Len(q) + 1
                      /\ SubSeq(q', 1, Len(q)) = q
                      /\ q'[Len(q')].seq = nEnq'
                      /\ last'.dropped = <<>>]_vars

\* an enqueue on the full queue has dropped its request
C14_Witness ==
    /\ last.op = "enqueue"
    /\ Len(q) = QUEUE_MAXSIZE
    /\ Len(last.dropped) = 1
    /\ ~last.raised
    /\ pc.at = "enqueued"

(***************************************************************************)
(* The writer from start to process exit: a client publishes events and    *)
(* stops the writer; main returns and the process exits, which ends the    *)
(* daemon worker thread wherever it is.                                    *)
(***************************************************************************)
\* sys.exit(main()): the interpreter exits, daemon threads do not keep it alive
Exit ==
    /\ pc.at = "done"
    /\ pc' = At("exited", 0)
    /\ wpc' = IF wpc = "stopped" THEN "stopped" ELSE "killed"
    /\ last' = Last("exit", 0, NoCamera, View(q, nEnq), FALSE)
    /\ UNCHANGED <<cameras, now, elapsed, stop_event, q, maxsize, nEnq, conn,
                   cursor, pending, item, tables, faults, wlast>>

NextShutdown ==
    \/ \E t \in TimeSpentInputs : Published < MaxEvents /\ ClientPublish(t)
    \/ ClientStop
    \/ StopPut
    \/ StopJoin
    \/ StopClose
    \/ Exit
    \/ WorkerGet
    \/ \E o \in Outcomes : \E k \in DeleteChoices : WorkerHandle(o, k)

\* the worker thread is scheduled as long as the process lives
SpecShutdown ==
    /\ InitClient
    /\ [][NextShutdown]_vars
    /\ WF_vars(WorkerGet)
    /\ WF_vars(\E o \in Outcomes : \E k \in DeleteChoices : WorkerHandle(o, k))

\* the numbers enqueue can give to a request of the client
\* (two table creations per camera, four requests per event, the sentinel)
Seqs == 1..(2 * NumCams + 4 * MaxEvents + 1)

\* request n is in the queue, waiting for the worker
Waiting(n) == \E i \in DOMAIN q : q[i].seq = n /\ q[i].query # STOP

\* the worker has just handled request n
HandledSeq(n) == Handled /\ wlast.seq = n

\* the part of C15 that holds in every state and step: the worker takes the
\* requests one by one in increasing order, so none twice; it handles the one
\* it took, once; it executes it when no store call fails; and no table
\* holds more rows than events were published
AtMostOnce ==
    /\ [][item' # item => item'.seq > item.seq]_vars
    /\ [](wpc = "handle" => (wlast.op = "get" /\ wlast.seq = item.seq))
    /\ []((Handled /\ wlast.outcome = "ok") => wlast.executed)
    /\ [](Len(HostRows) <= Published /\ Len(StationRows) <= Published)

\* C15 (amended): every request accepted into the queue is dequeued at most
\* once and executed at most once, exactly once when no store call fails for
\* it, and every accepted request is eventually handled unless the process
\* exits first (stop waits for the worker for a bounded time only).
C15_AtMostOnceAndEventuallyUnlessExit ==
    /\ AtMostOnce
    /\ \A n \in Seqs : Waiting(n) ~> (HandledSeq(n) \/ wpc = "killed")

\* both events were published, handled and stored once, and the worker
\* stopped on the sentinel
C15_Witness ==
    /\ wpc = "stopped"
    /\ Published = MaxEvents
    /\ Len(HostRows) = MaxEvents
    /\ faults = 0
    /\ pc.at = "exited"

\* C15 as stated: every request accepted before shutdown is eventually
\* handled by the worker.
C15_AsStated ==
    /\ AtMostOnce
    /\ \A n \in Seqs : Waiting(n) ~> HandledSeq(n)

\* the positions of main inside an iteration of the acquisition loop
InLoop == {"top", "acquire", "elapsed", "periodic", "sleep"}

\* C16: no error inside an iteration of the acquisition loop (a failed read,
\* a failed detection, a publication that raises or whose requests the full
\* queue drops) ends the loop: after the step the thread is still inside the
\* loop, and it reaches the finally block only with the stop flag set.
C16_ErrorsContained ==
    /\ pc.at = "finally" => stop_event
    /\ last.op \in {"read_failed", "detect_failed", "observe", "periodic"}
           => (pc.at \in InLoop /\ ~last.raised)

\* C18: a failure of the detection model on a frame counts as zero people:
\* the camera is evaluated as Vacant in that tick and the loop goes on.
C18_DetectionFailureIsZeroPeople ==
    last.op = "detect_failed" =>
        /\ cameras[last.cam].people_count = 0
        /\ cameras[last.cam].status = "Vacant"
        /\ pc.at \in InLoop

\* C17: a failed frame read skips the tick for that camera and nothing more:
\* the step publishes nothing and drops nothing, raises nothing, leaves the
\* camera (status, previous_status, people_count, time_started, the presence
\* counters) and the queue as they were, and the thread goes on inside the
\* loop, to the next camera or to the periodic part of the iteration.
C17_FailedReadSkipsTheTick ==
    /\ [](last.op = "read_failed" => cameras[last.cam] = last.pre)
    /\ [](last.op = "read_failed" => (EventsOfLast = 0 /\ last.dropped = <<>>))
    /\ [](last.op = "read_failed" => (~last.raised /\ pc.at \in InLoop))
    /\ [][(pc.at = "acquire" /\ last'.op = "read_failed") =>
              /\ cameras' = cameras
              /\ q' = q
              /\ nEnq' = nEnq
              /\ pc'.at \in {"acquire", "elapsed"}]_vars

\* a failed read for a camera that is Occupied, in the middle of a visit
C17_Witness ==
    /\ last.op = "read_failed"
    /\ last.pre.status = "Occupied"
    /\ last.pre.previous_status = "Occupied"
    /\ last.pre.time_started # None
    /\ cameras[last.cam].status = "Occupied"
    /\ pc.at = "elapsed"

\* C19: a call of publish_event that does not raise has put four requests in
\* the empty queue, in this order: the insert into the host table, the same
\* insert (same statement, same values) into the station table, then the
\* row count and the deletion of the oldest row, both on the station table;
\* no count and no deletion names the host table.
C19_PublishOrder ==
    (last.op = "publish" /\ ~last.raised) =>
        LET host == quote_ident(SfvisTable(last.pre.sfvis))
            station == quote_ident(CamTable(last.pre.station))
        IN  /\ Len(q) = 4
            /\ \A k \in 1..4 : q[k].seq = k
            /\ q[1].query \in {"INSERT_WITH_TIME", "INSERT_NO_TIME"}
            /\ q[1].table = host
            /\ q[1].params = last.calls[1]
            /\ q[2].query = q[1].query
            /\ q[2].table = station
            /\ q[2].params = q[1].params
            /\ q[3] = Request("COUNT", station, <<>>, 3)
            /\ q[4] = Request("DELETE_OLDEST_ONE", station, <<>>, 4)
            /\ \A k \in 1..4 : q[k].table = host => k = 1
            /\ last.dropped = <<>>

\* an Occupied to Vacant event with a dwell has been published for station 12
\* of host a1
C19_Witness ==
    /\ last.op = "publish"
    /\ ~last.raised
    /\ Len(q) = 4
    /\ q[1].query = "INSERT_WITH_TIME"
    /\ Len(q[2].params) = 10
    /\ last.pre.station = 12
    /\ last.pre.sfvis = <<"a", "1">>

\* the insert requests among the requests rs
Inserts(rs) ==
    {rs[k] : k \in {j \in 1..Len(rs) : rs[j].query \in {"INSERT_WITH_TIME", "INSERT_NO_TIME"}}}

\* C20 (amended): an insert names the dwell column exactly when its event
\* carries a dwell, and only the event of an Occupied to Vacant edge carries
\* one: every row written for an Occupied to Vacant edge has the column; no
\* row written for a Vacant to Occupied edge and no row written for a
\* heartbeat has it.
C20_DwellColumn ==
    /\ \A r \in Inserts(q) \cup Inserts(last.dropped) :
           /\ r.query = "INSERT_WITH_TIME" <=> Len(r.params) = 10
           /\ r.query = "INSERT_NO_TIME" <=> Len(r.params) = 9
           /\ r.query = "INSERT_WITH_TIME" => (r.params[4] = "Occupied" /\ r.params[6] = "Vacant")
    /\ OccupiedToVacant => (EventsOfLast = 1 /\ Len(last.calls[1]) = 10)
    /\ VacantToOccupied => (EventsOfLast = 1 /\ Len(last.calls[1]) = 9)
    /\ last.op = "periodic" => \A k \in 1..EventsOfLast : Len(last.calls[k]) = 9

\* the queue holds the rows of a Vacant to Occupied edge, without the column,
\* and the Occupied to Vacant edge has offered its rows, with it
C20_Witness ==
    /\ OccupiedToVacant
    /\ Len(last.calls[1]) = 10
    /\ \E r \in Inserts(q) \cup Inserts(last.dropped) :
           r.query = "INSERT_WITH_TIME" /\ r.params = last.calls[1]
    /\ \E r \in Inserts(q) :
           /\ r.query = "INSERT_NO_TIME"
           /\ r.params[4] = "Vacant"
           /\ r.params[5] = "Occupied"

\* C20 as stated: every event of a status transition carries the dwell and
\* its inserts name the column; no heartbeat does.
C20_AsStated ==
    /\ \A r \in Inserts(q) \cup Inserts(last.dropped) :
           r.query = "INSERT_WITH_TIME" <=> Len(r.params) = 10
    /\ (OccupiedToVacant \/ VacantToOccupied)
           => (EventsOfLast = 1 /\ Len(last.calls[1]) = 10)
    /\ last.op = "periodic" => \A k \in 1..EventsOfLast : Len(last.calls[k]) = 9

(***************************************************************************)
(* Order of the two producers of an iteration, shutdown, heartbeats.       *)
(***************************************************************************)
\* the values of an insert are those of a transition event
IsTransitionRow(params) == Len(params) = 10 \/ params[4] # params[5]

\* the values of an insert are those of a heartbeat
IsHeartbeatRow(params) == Len(params) = 9 /\ params[4] = params[5]

\* the positions of the queue that hold an insert
InsertAt == {k \in 1..Len(q) : q[k].query \in {"INSERT_WITH_TIME", "INSERT_NO_TIME"}}

\* C21: the requests of a camera's transition event are enqueued before the
\* requests of the heartbeat of the same camera and the same iteration: in
\* the queue they stand before them, and a heartbeat is published only when
\* every observation of the iteration is over.
C21_TransitionBeforeHeartbeat ==
    /\ \A j \in InsertAt : \A k \in InsertAt :
           (/\ q[j].params[1] = q[k].params[1]
            /\ q[j].params[2] = q[k].params[2]
            /\ IsTransitionRow(q[j].params)
            /\ IsHeartbeatRow(q[k].params)) => (j < k /\ q[j].seq < q[k].seq)
    /\ (last.op = "periodic" /\ EventsOfLast > 0) => pc.at \in {"periodic", "sleep"}
    /\ last.op = "observe" => pc.at \in {"acquire", "elapsed", "finally"}

\* the queue holds the inserts of a transition and, after them, an insert of
\* the heartbeat of the same camera and iteration
C21_Witness ==
    /\ last.op = "periodic"
    /\ EventsOfLast = 1
    /\ \E j \in InsertAt : \E k \in InsertAt :
           /\ q[j].params[1] = now
           /\ q[k].params[1] = now
           /\ q[j].params[2] = q[k].params[2]
           /\ IsTransitionRow(q[j].params)
           /\ IsHeartbeatRow(q[k].params)
           /\ q[k].params = last.calls[1]

(***************************************************************************)
(* Shutdown of the whole program, both threads running, no capture device  *)
(* opened (the loop publishes heartbeats only).  After the first second    *)
(* an iteration may take less than a tick of the clock.  Nothing obliges   *)
(* the worker to finish a store call: the connector sets no timeout.       *)
(***************************************************************************)
InitStop ==
    /\ Init
    /\ \A i \in Cams : ~cameras[i].cap

\* the steps of DBWriter.stop and of the finally block of main
StopStep ==
    \/ Finally
    \/ StopPut
    \/ StopJoin
    \/ StopClose

NextStop ==
    \/ LoopTop
    \/ \E i \in Cams : AcquireSkip(i)
    \/ ReadElapsed
    \/ \E i \in Cams : PeriodicStep(i)
    \/ \E d \in 1..MaxTime : Sleep(d, MaxTime)
    \/ now >= TicksPerSec /\ Sleep(0, MaxTime)
    \/ Signal
    \/ StopStep
    \/ WorkerGet
    \/ \E o \in Outcomes : \E k \in DeleteChoices : WorkerHandle(o, k)

SpecStop == InitStop /\ [][NextStop]_vars

\* the positions of main from the finally block to the return of stop
Stopping == {"finally", "stop_put", "stop_join", "stop_close"}

\* C22: once the stop flag is set the loop leaves at the top of its next
\* iteration, and from there shutdown completes without the help of the
\* worker: whatever the queue holds and whatever the worker is doing, the
\* next step of the stopping thread (the sentinel enqueued, the bounded wait
\* for the worker, the connection closed) can be taken.
C22_ShutdownCompletes ==
    /\ [][(stop_event /\ pc.at = "top" /\ pc' # pc) => pc'.at = "finally"]_vars
    /\ [][(pc.at \in InLoop /\ pc'.at = "finally") => (stop_event \/ last'.raised)]_vars
    /\ [](pc.at \in Stopping => ENABLED StopStep)

\* C23: the stopping thread closes and clears the connection only when the
\* worker is not inside its try block (ensure, execute, commit) with a
\* request: an operation in flight is left to finish, and the connection
\* state is touched by one thread at a time.
C23_CloseLeavesInFlightAlone ==
    [][(pc.at = "stop_close" /\ pc'.at = "done") => wpc # "handle"]_vars

\* C24: a heartbeat carries no dwell, the snapshot presence_60 as its rate
\* and presence_total as its total, and the snapshot taken at a 60-second
\* boundary is the one every heartbeat reports until the next boundary: a
\* heartbeat that follows another heartbeat of the same boundary second, or
\* that is published at a second that is no multiple of 60, reports the
\* snapshot the camera already had.
C24_HeartbeatSnapshot ==
    (last.op = "periodic" /\ EventsOfLast = 1) =>
        LET e == last.calls[1]
            c == cameras[last.cam]
        IN  /\ Len(e) = 9
            /\ e[9] = c.presence_60
            /\ e[8] = c.presence_total
            /\ elapsed % ROLLUP_PERIOD # 0 => e[9] = last.pre.presence_60
            /\ (/\ ~IsNone(last.pre.checkpoint)
                /\ Val(last.pre.checkpoint) \div TicksPerSec = elapsed)
                   => e[9] = last.pre.presence_60

(***************************************************************************)
(* Detection results of one frame turned into people_count and status.     *)
(***************************************************************************)
\* what detectNet can report for one object: a person above, at and below
\* the threshold, a certain person, another class above the threshold
DetectionInputs ==
    {Detection(PERSON_CLASS, CONFIDENCE_PCT + 1),
     Detection(PERSON_CLASS, CONFIDENCE_PCT),
     Detection(PERSON_CLASS, CONFIDENCE_PCT - 1),
     Detection(PERSON_CLASS, 100),
     Detection(PERSON_CLASS + 1, CONFIDENCE_PCT + 1)}

FrameInputs == UNION {[1..n -> DetectionInputs] : n \in 0..MaxFrameDet}

\* cam.people_count = count_people(cam.detections);
\* cam.status = status_from_people(cam.people_count)
Detect(d) ==
    /\ pc.at = "client"
    /\ cameras' = [cameras EXCEPT ![1].people_count = count_people(d),
                                  ![1].status = status_from_people(count_people(d))]
    /\ last' = Last("detect", 1, cameras[1], View(q, nEnq), FALSE) @@ [detections |-> d]
    /\ UNCHANGED <<now, elapsed, pc, stop_event, q, maxsize, nEnq, writerVars>>

NextDetect == \E d \in FrameInputs : Detect(d)

SpecDetect == InitClient /\ [][NextDetect]_vars

\* the persons of a frame: ClassID 1 with a confidence of 61 percent or more
Persons(d) == {i \in DOMAIN d : d[i].ClassID = 1 /\ d[i].Confidence \in 61..100}

\* C25: people_count is the number of detections of class 1 whose confidence
\* is above 0.60 (a detection at exactly 0.60, or of another class, does not
\* count), and the status is Occupied exactly when people_count is above 0.
C25_PeopleCount ==
    last.op = "detect" =>
        LET d == last.detections
            c == cameras[last.cam]
        IN  /\ c.people_count = Cardinality(Persons(d))
            /\ (\A i \in DOMAIN d : d[i].Confidence = 60 \/ d[i].ClassID # 1)
                   => c.people_count = 0
            /\ c.status = "Occupied" <=> c.people_count > 0
            /\ c.status = "Vacant" <=> c.people_count = 0

\* a frame with two persons above the threshold and one exactly at it
C25_Witness ==
    /\ last.op = "detect"
    /\ Len(last.detections) = 3
    /\ \E i \in 1..3 : last.detections[i] = Detection(1, 60)
    /\ cameras[1].people_count = 2
    /\ cameras[1].status = "Occupied"

\* C26: at a second divisible by 60 the rollup runs before the heartbeat is
\* built: the heartbeat of that call reports the presence_total that
\* includes the window just closed and, as its rate, the count of that
\* window, not the snapshot of the window before.
C26_RollupBeforeHeartbeat ==
    (last.op = "periodic" /\ EventsOfLast = 1 /\ elapsed % 60 = 0) =>
        LET e == last.calls[1]
        IN  /\ e[8] = last.pre.presence_total + last.pre.presence_rate
            /\ e[9] = last.pre.presence_rate
            /\ e[8] = cameras[last.cam].presence_total
            /\ e[9] = cameras[last.cam].presence_60

\* the heartbeat of second 60 reports the two visits of the window that has
\* just closed; the snapshot before was another
C26_Witness ==
    /\ last.op = "periodic"
    /\ EventsOfLast = 1
    /\ elapsed = 60
    /\ last.pre.presence_rate = MaxPresence
    /\ last.pre.presence_60 # MaxPresence
    /\ last.calls[1][9] = MaxPresence
    /\ last.calls[1][8] = last.pre.presence_total + MaxPresence

(***************************************************************************)
(* Further properties of the presence state machine.                       *)
(***************************************************************************)
\* the last step was an observation that found the status of the one before
SameStatus ==
    /\ last.op = "observe"
    /\ cameras[last.cam].status = last.pre.status

\* C27: an observation whose status equals previous_status publishes nothing
\* and changes nothing of the camera but people_count: previous_status,
\* time_started, time_spent and the three presence counters stay, and
\* time_started is not set again while the station stays Occupied.
C27_NoEdgeNoChange ==
    SameStatus =>
        LET c == cameras[last.cam]
        IN  /\ EventsOfLast = 0
            /\ last.dropped = <<>>
            /\ c.previous_status = last.pre.previous_status
            /\ c.time_started = last.pre.time_started
            /\ c.time_spent = last.pre.time_spent
            /\ c.presence_rate = last.pre.presence_rate
            /\ c.presence_total = last.pre.presence_total
            /\ c.presence_60 = last.pre.presence_60
            /\ [c EXCEPT !.people_count = last.pre.people_count] = last.pre

\* a station seen Occupied again, later than the start of the visit
C27_Witness ==
    /\ SameStatus
    /\ cameras[last.cam].status = "Occupied"
    /\ ~IsNone(cameras[last.cam].time_started)
    /\ Val(cameras[last.cam].time_started) < now

\* C28: between observations time_started is set exactly when
\* previous_status is Occupied, and time_spent is never set together with
\* time_started (it is set only while the Occupied to Vacant event is built).
C28_OneTimingField ==
    \A i \in Cams :
        /\ ~IsNone(cameras[i].time_started) <=> cameras[i].previous_status = "Occupied"
        /\ ~(~IsNone(cameras[i].time_started) /\ ~IsNone(cameras[i].time_spent))
        /\ last.op = "observe" /\ last.cam = i /\ Len(last.calls) = 1 /\ Len(last.calls[1]) = 10
               => (IsNone(cameras[i].time_started) /\ ~IsNone(last.pre.time_started))

\* a visit has just ended: its dwell went out with the event, and neither
\* time_started nor time_spent is set any more
C28_Witness ==
    /\ OccupiedToVacant
    /\ Len(last.calls[1]) = 10
    /\ last.calls[1][5] = fmt_elapsed(TicksPerSec)
    /\ ~IsNone(last.pre.time_started)
    /\ IsNone(cameras[last.cam].time_started)
    /\ IsNone(cameras[last.cam].time_spent)
    /\ cameras[last.cam].previous_status = "Vacant"

(***************************************************************************)
(* handle_status_transitions called once on a camera of any timing state,  *)
(* the states the loop never produces included.                            *)
(***************************************************************************)
Statuses == {"Vacant", "Occupied"}

InitEdge ==
    /\ maxsize = MaxQueue
    /\ \E st \in Statuses : \E pst \in Statuses :
       \E ts \in {None, Some(0), Some(1)} : \E rate \in 0..1 : \E total \in 0..1 :
           cameras = [i \in Cams |->
                         [Registry[i] EXCEPT !.cap = TRUE,
                                             !.status = st,
                                             !.people_count = IF st = "Occupied" THEN 1 ELSE 0,
                                             !.previous_status = pst,
                                             !.time_started = ts,
                                             !.presence_rate = rate,
                                             !.presence_total = total]]
    /\ now \in {TicksPerSec, MaxTime}
    /\ elapsed = 0
    /\ pc = At("client", 0)
    /\ stop_event = FALSE
    /\ q = <<>>
    /\ nEnq = 0
    /\ last = Last("start", 0, NoCamera, View(<<>>, 0), FALSE)
    /\ InitWriter
    /\ tables = <<>>

\* handle_status_transitions(dbw, cam) for the first camera
ClientHandle ==
    /\ pc.at = "client"
    /\ LET r == handle_status_transitions(View(q, nEnq), cameras[1])
       IN  /\ cameras' = [cameras EXCEPT ![1] = r.cam]
           /\ q' = r.w.q
           /\ nEnq' = r.w.n
           /\ last' = Last("observe", 1, cameras[1], r.w, r.raised)
    /\ pc' = At("handled", 0)
    /\ UNCHANGED <<now, elapsed, stop_event, maxsize, writerVars>>

NextEdge == ClientHandle

SpecEdge == InitEdge /\ [][NextEdge]_vars

\* the call was for an Occupied to Vacant edge of a camera without time_started
EdgeWithoutStart ==
    /\ last.op = "observe"
    /\ last.pre.status = "Vacant"
    /\ last.pre.previous_status = "Occupied"
    /\ IsNone(last.pre.time_started)

\* C29: an Occupied to Vacant edge met with time_started unset does not
\* fail: presence_rate grows by 1, exactly one event is published, with a
\* dwell of 0 and the raised presence_rate, and previous_status is Vacant.
C29_EdgeWithoutStart ==
    EdgeWithoutStart =>
        LET c == cameras[last.cam]
        IN  /\ ~last.raised
            /\ EventsOfLast = 1
            /\ Len(last.calls[1]) = 10
            /\ last.calls[1][4] = "Occupied"
            /\ last.calls[1][5] = fmt_elapsed(0)
            /\ last.calls[1][6] = "Vacant"
            /\ last.calls[1][10] = last.pre.presence_rate + 1
            /\ c.presence_rate = last.pre.presence_rate + 1
            /\ c.previous_status = "Vacant"
            /\ IsNone(c.time_started)
            /\ Len(q) = 4
            /\ q[1].query = "INSERT_WITH_TIME"
            /\ q[1].params = last.calls[1]

\* the edge was met without time_started and its event, with the dwell 0, is
\* in the queue
C29_Witness ==
    /\ EdgeWithoutStart
    /\ last.pre.presence_rate = 1
    /\ cameras[last.cam].presence_rate = 2
    /\ q[2].query = "INSERT_WITH_TIME"
    /\ q[2].params[5] = [h |-> 0, m |-> 0, s |-> 0, frac |-> 0]

\* C30: the retention step of the station table deletes a row only when the
\* table holds more than GRAFANA_ROW_LIMIT rows, and then exactly one row,
\* one with the oldest timestamp; at or below the limit it deletes nothing;
\* no step deletes more than one row.
C30_RetentionStep ==
    [][(wpc = "handle" /\ item.query = "DELETE_OLDEST_ONE" /\ wpc' = "get") =>
           IF Len(StationRows) > GRAFANA_ROW_LIMIT
           THEN \E k \in OldestIdx(StationRows) : StationRows' = RemoveAt(StationRows, k)
           ELSE StationRows' = StationRows]_vars

(***************************************************************************)
(* Release of the heartbeat suppression.                                   *)
(***************************************************************************)
\* C31: the periodics of a camera never leave it suppressed: after them
\* pause is False and no checkpoint of one second or more is left; a
\* checkpoint that is at least one second old when the iteration runs is
\* cleared by it (checkpoint = None) unless the iteration publishes a
\* heartbeat of its own, which sets a new one; and an iteration on a
\* 20-second boundary does publish its heartbeat.
C31_SuppressionReleased ==
    (last.op = "periodic" /\ ~last.raised) =>
        LET c == cameras[last.cam]
            old == /\ ~IsNone(last.pre.checkpoint)
                   /\ now - Val(last.pre.checkpoint) >= TicksPerSec
        IN  /\ ~c.pause
            /\ ~IsNone(c.checkpoint) => now - Val(c.checkpoint) < TicksPerSec
            /\ (old /\ EventsOfLast = 0) => IsNone(c.checkpoint)
            /\ elapsed % HEARTBEAT_PERIOD = 0 => EventsOfLast = 1

\* an iteration that finds a checkpoint older than one second and clears it
C31_Witness ==
    /\ last.op = "periodic"
    /\ ~last.raised
    /\ ~IsNone(last.pre.checkpoint)
    /\ now - Val(last.pre.checkpoint) >= TicksPerSec
    /\ IsNone(cameras[last.cam].checkpoint)
    /\ ~cameras[last.cam].pause

(***************************************************************************)
(* Conservation of the transition counts.                                  *)
(***************************************************************************)
\* the Occupied to Vacant edges of the camera before and after a step
Counted(cams, i) == cams[i].presence_total + cams[i].presence_rate

\* C32: presence_total + presence_rate of a camera is the number of
\* Occupied to Vacant edges its state machine has observed: it is 0 at
\* startup, an observation that finds the camera Occupied and sees it Vacant
\* adds one, and no other step changes it, rollups (repeated ones within a
\* boundary second included) only moving counts from the window to the total.
C32_Conservation ==
    /\ \A i \in Cams : Counted(cameras, i) = 0
    /\ [][\A i \in Cams :
            Counted(cameras', i) = Counted(cameras, i) +
                (IF /\ pc = At("acquire", i)
                    /\ last'.op = "observe"
                    /\ cameras[i].previous_status = "Occupied"
                    /\ cameras'[i].status = "Vacant"
                 THEN 1 ELSE 0)]_vars

\* a repeated rollup within a boundary second that moves an edge, counted
\* since the first one, from the window to the total
C32_Witness ==
    /\ last.op = "periodic"
    /\ elapsed % ROLLUP_PERIOD = 0
    /\ ~IsNone(last.pre.checkpoint)
    /\ Val(last.pre.checkpoint) \div TicksPerSec = elapsed
    /\ last.pre.presence_rate >= 1
    /\ cameras[last.cam].presence_rate = 0
    /\ cameras[last.cam].presence_total =
           last.pre.presence_total + last.pre.presence_rate

(***************************************************************************)
(* One event against a queue that fills up.                                *)
(***************************************************************************)
\* C33: a call of publish_event that does not raise has either all four of
\* its requests (host insert, station insert, count, delete) accepted into
\* the queue or none of them, also when the queue becomes full while the
\* event is being enqueued.
C33_PublishAllOrNothing ==
    (last.op \in {"observe", "periodic"} /\ EventsOfLast = 1 /\ ~last.raised) =>
        Len(last.dropped) \in {0, 4}

(***************************************************************************)
(* Station ids of the cameras main registers.                              *)
(***************************************************************************)
\* the numeric host ids find_sfvis_no can yield, without leading zeros
HostInputs == {NatToStr(h) : h \in 1..MaxHost}

\* the 1-based positions enumerate(even_devs) hands out
PlaceInputs == 1..MaxPlace

InitStation ==
    /\ maxsize = MaxQueue
    /\ cameras = [i \in Cams |-> NoCamera]
    /\ now = 0
    /\ elapsed = 0
    /\ pc = At("register", 0)
    /\ stop_event = FALSE
    /\ q = <<>>
    /\ nEnq = 0
    /\ last = Last("start", 0, NoCamera, View(<<>>, 0), FALSE)
    /\ InitWriter
    /\ tables = <<>>

\* main: station = workstation_for(sfvis, i + 1); cam = Camera(...)
\* (last.pre keeps the camera registered before this one)
Register(sfvis, camera_place) ==
    /\ pc.at = "register"
    /\ cameras' = [cameras EXCEPT ![1] =
                       Camera(camera_place - 1,
                              workstation_for(sfvis, camera_place), sfvis)]
    /\ last' = Last("register", 1, cameras[1], View(q, nEnq), FALSE)
    /\ UNCHANGED <<now, elapsed, pc, stop_event, q, maxsize, nEnq, writerVars>>

NextStation == \E sfvis \in HostInputs : \E place \in PlaceInputs : Register(sfvis, place)

SpecStation == InitStation /\ [][NextStation]_vars

\* C34: two registered cameras have the same station id only if they have
\* the same host id and the same position on it.
C34_StationsUnique ==
    (last.op = "register" /\ last.pre # NoCamera
       /\ cameras[1].station = last.pre.station) =>
          (cameras[1].sfvis = last.pre.sfvis /\ cameras[1].index = last.pre.index)

(***************************************************************************)
(* Old and new status of the published events.                             *)
(***************************************************************************)
\* the Old_Status and New_Status an event tuple carries
OldStatus(e) == e[4]
NewStatus(e) == IF Len(e) = 10 THEN e[6] ELSE e[5]

\* C35: a transition event carries as old status the status the camera had
\* before the edge and as new status the status just observed, and the two
\* differ; a heartbeat carries the same status as old and as new, the one
\* the camera has.
C35_OldAndNewStatus ==
    /\ (last.op = "observe" /\ EventsOfLast = 1) =>
           /\ OldStatus(last.calls[1]) = last.pre.previous_status
           /\ OldStatus(last.calls[1]) = last.pre.status
           /\ NewStatus(last.calls[1]) = cameras[last.cam].status
           /\ OldStatus(last.calls[1]) # NewStatus(last.calls[1])
    /\ (last.op = "periodic" /\ EventsOfLast = 1) =>
           /\ OldStatus(last.calls[1]) = NewStatus(last.calls[1])
           /\ NewStatus(last.calls[1]) = cameras[last.cam].status
           /\ cameras[last.cam].previous_status = cameras[last.cam].status

\* a heartbeat of an occupied station
C35_Witness ==
    /\ last.op = "periodic"
    /\ EventsOfLast = 1
    /\ OldStatus(last.calls[1]) = "Occupied"
    /\ NewStatus(last.calls[1]) = "Occupied"

(***************************************************************************)
(* Creation of the tables before their use.                                *)
(***************************************************************************)
\* every CREATE of the queue is ahead of every other request in it
CreatesAhead(rs) ==
    \A j \in 1..Len(rs) :
        rs[j].query = "CREATE" => \A m \in 1..j : rs[m].query = "CREATE"

\* the worker is handling an INSERT, COUNT or DELETE
UsesTable == wpc = "handle" /\ item.query # "CREATE"

\* C36: the CREATE requests are queued ahead of every INSERT, COUNT and
\* DELETE, and the worker takes them first: when it handles an INSERT, COUNT
\* or DELETE no CREATE is left in the queue, and the table of that request
\* exists in the store unless a store fault has hit the writer before.
C36_CreateBeforeUse ==
    /\ CreatesAhead(q)
    /\ UsesTable =>
           /\ \A j \in 1..Len(q) : q[j].query # "CREATE"
           /\ faults = 0 => Unquote(item.table) \in DOMAIN tables

\* an INSERT handled with its table in place
C36_Witness ==
    /\ UsesTable
    /\ item.query \in {"INSERT_WITH_TIME", "INSERT_NO_TIME"}
    /\ faults = 0
    /\ Unquote(item.table) \in DOMAIN tables

\* C36 as stated: whenever the worker handles an INSERT, COUNT or DELETE,
\* the CREATE of its table has been executed.
C36_AsStated == UsesTable => Unquote(item.table) \in DOMAIN tables

(***************************************************************************)
(* The acquisition loop over two cameras.                                  *)
(***************************************************************************)
PairOfCams == 1..PairCams

RegistryPair ==
    [i \in PairOfCams |-> Camera(i - 1, workstation_for(SFVIS, i), SFVIS)]

InitPair ==
    /\ maxsize = QUEUE_MAXSIZE
    /\ \E caps \in [PairOfCams -> BOOLEAN] :
           cameras = [i \in PairOfCams |-> [RegistryPair[i] EXCEPT !.cap = caps[i]]]
    /\ now = 0
    /\ elapsed = 0
    /\ pc = At("top", 0)
    /\ stop_event = FALSE
    /\ LET w == CreateAll(View(<<>>, 0), RegistryPair, 1)
       IN  /\ q = w.q
           /\ nEnq = w.n
           /\ last = [Last("start", 0, NoCamera, w, FALSE)
                         EXCEPT !.entered = [c \in PairOfCams |-> 0]]
    /\ InitWriter
    /\ tables = <<>>

NextPair ==
    \/ LoopTop
    \/ \E i \in PairOfCams : AcquireSkip(i)
    \/ \E i \in PairOfCams : AcquireReadFail(i)
    \/ \E i \in PairOfCams : DetectFail(i)
    \/ \E i \in PairOfCams : \E d \in Detections : Observe(i, d)
    \/ ReadElapsed
    \/ \E i \in PairOfCams : PeriodicStep(i)
    \/ \E d \in 1..TicksPerSec : Sleep(d, MaxTime)

SpecPair == InitPair /\ [][NextPair]_vars

\* C37: a failed read of one camera leaves the other cameras of the
\* iteration alone: the thread goes on to the acquisition of the next camera
\* (to the periodics after the last one) with every camera and the queue
\* unchanged, the next step of the thread after it is the acquisition of
\* that next camera, which reads its frame whenever its capture is open, and
\* the periodics of the iteration are evaluated for every camera in turn.
C37_FailedReadIsolated ==
    /\ [][(pc.at = "acquire" /\ last'.op = "read_failed" /\ pc' # pc) =>
              /\ pc' = NextCam("acquire", pc.i, "elapsed")
              /\ cameras' = cameras
              /\ q' = q]_vars
    /\ [][(last.op = "read_failed" /\ pc.at = "acquire" /\ pc' # pc) =>
              /\ last'.cam = pc.i
              /\ pc.i = last.cam + 1
              /\ cameras[pc.i].cap =>
                     last'.op \in {"observe", "read_failed", "detect_failed"}
              /\ ~cameras[pc.i].cap => last'.op = "skip"]_vars
    /\ [][(pc.at = "periodic" /\ pc' # pc) =>
              /\ last'.op = "periodic"
              /\ last'.cam = pc.i
              /\ cameras'[pc.i].check_time = elapsed
              /\ ~last'.raised => pc' = NextCam("periodic", pc.i, "sleep")]_vars

\* the read of the first camera has just failed and the thread stands at
\* the acquisition of the second camera, whose capture is open
C37_Witness ==
    /\ last.op = "read_failed"
    /\ last.cam = 1
    /\ pc = At("acquire", 2)
    /\ cameras[2].cap

(***************************************************************************)
(* Cameras whose capture did not open.                                     *)
(***************************************************************************)
\* C38: no step of the acquisition thread publishes an event, transition
\* event or heartbeat, for a camera whose capture is None.
C38_ClosedCameraSilent ==
    (last.cam \in DOMAIN cameras /\ ~cameras[last.cam].cap) => EventsOfLast = 0

=============================================================================
